---------------------------- MODULE Spec2Model ----------------------------
(***************************************************************************)
(* kingpin.actors.rightscale.server_array: the ServerArray actors (Clone,  *)
(* Update, Terminate, Destroy, Launch, Execute), their array lookup        *)
(* (_find_server_arrays) and their fan-out (_apply), as a state machine.   *)
(*                                                                         *)
(* One actor runs per behaviour.  Its _execute coroutine is a sequence of  *)
(* steps (Steps); a step that yields on the RightScale client leaves the   *)
(* coroutine suspended until the matching "return" action resumes it.      *)
(* _apply starts one coroutine per array; each of them runs up to its      *)
(* first yield when it is created and is resumed, in any order, by the     *)
(* return of the client call it waits for.                                 *)
(***************************************************************************)
EXTENDS Integers, Sequences, FiniteSets, TLC

VARIABLES
    op,        \* the actor class being run
    dry,       \* self._dry
    opt,       \* self._options
    step,      \* index in Steps of the step _execute is at
    pc,        \* where _execute is within that step
    found,     \* remote: what find_server_arrays answers for each name
    inst,      \* remote: the current instances of each array
    arrays,    \* the value the last _find_server_arrays returned
    tasks,     \* the coroutines of the running _apply, one per array
    calls,     \* every client call issued so far, in order
    log,       \* every self.log message so far, in order
    result,    \* "running", "ok", or the exception _execute raised
    sleeps,    \* tornado_sleep calls made
    run,       \* 1 on the first run, 2 on the repeated dry run
    prev,      \* log and calls of the first run, kept for the second
    enc        \* a call of _generate_rightscale_params and what it returned

vars == <<op, dry, opt, step, pc, found, inst, arrays, tasks, calls,
          log, result, sleeps, run, prev, enc>>

(***************************************************************************)
(* Bounds of the model.                                                    *)
(***************************************************************************)
MaxArrays == 2
MaxInst == 2
MaxPolls == 2
MaxRand == 1

\* randint(10000, 20000): the lower end of the fabricated array's path
RandLo == 10000
\* elasticity_params.bounds.min_count of a fabricated array
MockMinCount == 4

ArrayIds == 1..MaxArrays
RandPaths == RandLo..(RandLo + MaxRand)

(***************************************************************************)
(* Array handles.  soul['name'] is the record `name`; a fabricated array   *)
(* has 'fake' in its soul.                                                 *)
(***************************************************************************)
RealName(i) == [kind |-> "array", of |-> "", id |-> i]
NoName == [kind |-> "", of |-> "", id |-> 0]

RealArray(i) ==
    [fake |-> FALSE, mock |-> FALSE, id |-> i, name |-> RealName(i),
     path |-> i, min_count |-> 1 + (i % 2)]

\* What the client hands back: None, one resource, or a list of resources.
None == [list |-> FALSE, items |-> <<>>]
One(h) == [list |-> FALSE, items |-> <<h>>]
List(hs) == [list |-> TRUE, items |-> hs]

\* Python truth value of a lookup result: None and [] are false.
Truthy(a) == a.items # <<>>

Msg(text, name, n) == [msg |-> text, arr |-> name, n |-> n]
Arg(k, v, n) == [k |-> k, v |-> v, n |-> n, insts |-> <<>>]
ArgInstances(k, insts) == [k |-> k, v |-> "", n |-> Len(insts), insts |-> insts]
NoArg == Arg("", "", 0)
Call(fn, h, by, arg) == [fn |-> fn, arr |-> h, by |-> by, arg |-> arg]
NoArray ==
    [fake |-> FALSE, mock |-> FALSE, id |-> 0, name |-> NoName, path |-> 0,
     min_count |-> 0]
LookupName(n) == [kind |-> "lookup", of |-> n, id |-> 0]

(***************************************************************************)
(* ServerArrayBaseActor._find_server_arrays, from the client's answer on:  *)
(* the fabricated array of a dry run, the raise_on policy, the audit log.  *)
(* r is the value randint() drew.                                          *)
(***************************************************************************)
\* a fabricated array whose name shows its random path
MockArrayNamedByPath(array_name, r) ==
    [fake |-> TRUE, mock |-> TRUE, id |-> 0,
     name |-> [kind |-> "mocked array", of |-> array_name, id |-> r],
     path |-> r, min_count |-> MockMinCount]

MockArray(array_name, r) ==
    [fake |-> TRUE, mock |-> TRUE, id |-> 0,
     name |-> [kind |-> "mocked array", of |-> array_name, id |-> 0],
     path |-> r, min_count |-> MockMinCount]

FindMsg(array_name, raise_on) ==
    CASE raise_on = "notfound" ->
           Msg("Verifying that array exists", LookupName(array_name), 0)
      [] raise_on = "found" ->
           Msg("Verifying that array does not exist", LookupName(array_name), 0)
      [] OTHER ->
           Msg("Searching for array named", LookupName(array_name), 0)

\* _find_server_arrays with `and allow_mock` missing on line 95
FindIgnoringAllowMock(array_name, raise_on, allow_mock, answer, r) ==
    LET mocked == ~Truthy(answer) /\ dry
        array == IF mocked THEN One(MockArray(array_name, r)) ELSE answer
    IN  IF Truthy(array) /\ raise_on = "found"
        THEN [exc |-> "ArrayAlreadyExists", ret |-> None, log |-> <<>>]
        ELSE IF ~Truthy(array) /\ raise_on = "notfound"
        THEN [exc |-> "ArrayNotFound", ret |-> None, log |-> <<>>]
        ELSE [exc |-> "", ret |-> array, log |-> <<>>]

\* _find_server_arrays whose line 114 lets a list of matches through
FindAcceptingLists(array_name, raise_on, allow_mock, answer, r) ==
    LET mocked == ~Truthy(answer) /\ dry /\ allow_mock
        array == IF mocked THEN One(MockArray(array_name, r)) ELSE answer
    IN  IF Truthy(array) /\ ~array.list /\ raise_on = "found"
        THEN [exc |-> "ArrayAlreadyExists", ret |-> None, log |-> <<>>]
        ELSE IF ~Truthy(array) /\ raise_on = "notfound"
        THEN [exc |-> "ArrayNotFound", ret |-> None, log |-> <<>>]
        ELSE [exc |-> "", ret |-> array, log |-> <<>>]

\* _find_server_arrays with `and self._dry` missing on line 95
FindMockingAlways(array_name, raise_on, allow_mock, answer, r) ==
    LET mocked == ~Truthy(answer) /\ allow_mock
        array == IF mocked THEN One(MockArray(array_name, r)) ELSE answer
    IN  IF Truthy(array) /\ raise_on = "found"
        THEN [exc |-> "ArrayAlreadyExists", ret |-> None, log |-> <<>>]
        ELSE IF ~Truthy(array) /\ raise_on = "notfound"
        THEN [exc |-> "ArrayNotFound", ret |-> None, log |-> <<>>]
        ELSE [exc |-> "", ret |-> array, log |-> <<>>]

_find_server_arrays(array_name, raise_on, allow_mock, answer, r) ==
    LET mocked == ~Truthy(answer) /\ dry /\ allow_mock
        array == IF mocked THEN One(MockArray(array_name, r)) ELSE answer
        l1 == IF mocked
              THEN <<Msg("Array not found -- creating a mock.",
                         LookupName(array_name), 0)>>
              ELSE <<>>
        l2 == IF array.list
              THEN [i \in 1..Len(array.items) |->
                      Msg("Matching array found", array.items[i].name, 0)]
              ELSE <<>>
    IN  IF Truthy(array) /\ raise_on = "found"
        THEN [exc |-> "ArrayAlreadyExists", ret |-> None, log |-> l1]
        ELSE IF ~Truthy(array) /\ raise_on = "notfound"
        THEN [exc |-> "ArrayNotFound", ret |-> None, log |-> l1]
        ELSE [exc |-> "", ret |-> array, log |-> l1 \o l2]

(***************************************************************************)
(* Coroutines started by _apply.  Each function below is one coroutine     *)
(* body: F(h, at, ans) runs it on array h from the point `at` ("start", or *)
(* the yield it was suspended at, resumed with the answer ans) up to its   *)
(* next yield or its end, and gives the point it stops at, the exception   *)
(* it raised, and the messages, client calls and sleeps it made on the way.*)
(***************************************************************************)
Ans(ok, err, n, insts) == [ok |-> ok, err |-> err, n |-> n, insts |-> insts]
NoAns == Ans(TRUE, "", 0, <<>>)

\* loc is the coroutine's local state: n and m are its integer locals,
\* sample the last count a poller read (-1 before the first).
Loc(n, m, sample) == [n |-> n, m |-> m, sample |-> sample]
NoLoc == Loc(0, 0, -1)

Ran(at, exc, msgs, cs, slept, loc) ==
    [pc |-> at, exc |-> exc, log |-> msgs, calls |-> cs, slept |-> slept,
     loc |-> loc]
Done(msgs) == Ran("done", "", msgs, <<>>, 0, NoLoc)
Failed(exc, msgs) == Ran("failed", exc, msgs, <<>>, 0, NoLoc)
Yield(at, msgs, cs) == Ran(at, "", msgs, cs, 0, NoLoc)

\* _disable_array without its `if self._dry` branch
DisableArrayAlways(h, at, ans, loc) ==
    IF at = "start"
    THEN Yield("update", <<Msg("Disabling Array", h.name, 0)>>,
               <<Call("update_server_array", h, "_disable_array",
                      Arg("server_array[state]", "disabled", 0))>>)
    ELSE IF ans.ok THEN Done(<<>>) ELSE Failed(ans.err, <<>>)

\* Terminate._disable_array
_disable_array(h, at, ans, loc) ==
    LET params == Arg("server_array[state]", "disabled", 0)
    IN  CASE at = "start" /\ dry ->
               Done(<<Msg("Would have updated array with params", h.name, 0)>>)
          [] at = "start" /\ ~dry ->
               Yield("update", <<Msg("Disabling Array", h.name, 0)>>,
                     <<Call("update_server_array", h, "_disable_array", params)>>)
          [] at = "update" ->
               IF ans.ok THEN Done(<<>>) ELSE Failed(ans.err, <<>>)

\* a _terminate_all_instances that fails when its task has failed
TerminateAllCheckingTask(h, at, ans, loc) ==
    CASE at = "start" /\ dry ->
           Done(<<Msg("Would have terminated all array instances.", h.name, 0)>>)
      [] at = "start" /\ ~dry ->
           Yield("terminate",
                 <<Msg("Terminating all instances in array", h.name, 0)>>,
                 <<Call("terminate_server_array_instances", h,
                        "_terminate_all_instances", NoArg)>>)
      [] at = "terminate" ->
           IF ans.ok
           THEN Yield("wait_task", <<>>,
                      <<Call("wait_for_task", h, "_terminate_all_instances",
                             NoArg)>>)
           ELSE Failed(ans.err, <<>>)
      [] at = "wait_task" ->
           IF ans.ok /\ ans.n = 1 THEN Done(<<>>)
           ELSE Failed("TaskExecutionFailed", <<>>)

\* Terminate._terminate_all_instances
_terminate_all_instances(h, at, ans, loc) ==
    CASE at = "start" /\ dry ->
           Done(<<Msg("Would have terminated all array instances.", h.name, 0)>>)
      [] at = "start" /\ ~dry ->
           Yield("terminate",
                 <<Msg("Terminating all instances in array", h.name, 0)>>,
                 <<Call("terminate_server_array_instances", h,
                        "_terminate_all_instances", NoArg)>>)
      [] at = "terminate" ->
           IF ans.ok
           THEN Yield("wait_task", <<>>,
                      <<Call("wait_for_task", h, "_terminate_all_instances",
                             NoArg)>>)
           ELSE Failed(ans.err, <<>>)
      [] at = "wait_task" ->
           \* the task's status (ans.n) is not looked at
           IF ans.ok THEN Done(<<>>) ELSE Failed(ans.err, <<>>)

\* _wait_until_empty without its `if self._dry` branch
WaitUntilEmptyAlways(h, at, ans, loc) ==
    LET query == Call("get_server_array_current_instances", h,
                      "_wait_until_empty", NoArg)
    IN  CASE at \in {"start", "sleep"} -> Yield("poll", <<>>, <<query>>)
          [] at = "poll" ->
               IF ~ans.ok THEN Failed(ans.err, <<>>)
               ELSE IF ans.n < 1 THEN Done(<<>>)
               ELSE Ran("sleep", "", <<>>, <<>>, 1, Loc(0, 0, ans.n))

\* a _wait_until_empty that is content with its first sample
WaitUntilEmptyOnce(h, at, ans, loc) ==
    LET query == Call("get_server_array_current_instances", h,
                      "_wait_until_empty", NoArg)
    IN  CASE at = "start" /\ dry ->
               Done(<<Msg("Pretending that array instances are terminated.",
                          h.name, 0)>>)
          [] at = "start" /\ ~dry -> Yield("poll", <<>>, <<query>>)
          [] at = "poll" ->
               IF ~ans.ok THEN Failed(ans.err, <<>>)
               ELSE Ran("done", "", <<Msg("instances found", NoName, ans.n)>>,
                        <<>>, 0, Loc(0, 0, ans.n))
          [] at = "sleep" -> Yield("poll", <<>>, <<query>>)

\* Terminate._wait_until_empty
_wait_until_empty(h, at, ans, loc) ==
    LET query == Call("get_server_array_current_instances", h,
                      "_wait_until_empty", NoArg)
    IN  CASE at = "start" /\ dry ->
               Done(<<Msg("Pretending that array instances are terminated.",
                          h.name, 0)>>)
          [] at = "start" /\ ~dry -> Yield("poll", <<>>, <<query>>)
          [] at = "poll" ->
               IF ~ans.ok THEN Failed(ans.err, <<>>)
               ELSE IF ans.n < 1
               THEN Ran("done", "", <<Msg("instances found", NoName, ans.n)>>,
                        <<>>, 0, Loc(0, 0, ans.n))
               ELSE Ran("sleep", "",
                        <<Msg("instances found", NoName, ans.n),
                          Msg("Sleeping..", NoName, 0)>>, <<>>, 1,
                        Loc(0, 0, ans.n))
          [] at = "sleep" -> Yield("poll", <<>>, <<query>>)

\* Destroy._destroy_array
_destroy_array(h, at, ans, loc) ==
    CASE at = "start" /\ dry ->
           Done(<<Msg("Pretending to destroy array", h.name, 0)>>)
      [] at = "start" /\ ~dry ->
           Yield("destroy", <<Msg("Destroying array", h.name, 0)>>,
                 <<Call("destroy_server_array", h, "_destroy_array", NoArg)>>)
      [] at = "destroy" ->
           IF ans.ok THEN Done(<<>>) ELSE Failed(ans.err, <<>>)

\* an _enable_array that does not look at the enable option
EnableArrayAlways(h, at, ans, loc) ==
    LET params == Arg("server_array[state]", "enabled", 0)
    IN  CASE at = "start" /\ ~dry ->
               Yield("update", <<Msg("Enabling Array", h.name, 0)>>,
                     <<Call("update_server_array", h, "_enable_array", params)>>)
          [] at = "start" /\ dry ->
               Done(<<Msg("Would enable array", h.name, 0)>>)
          [] at = "update" ->
               IF ans.ok THEN Done(<<>>) ELSE Failed(ans.err, <<>>)

\* Launch._enable_array
_enable_array(h, at, ans, loc) ==
    LET params == Arg("server_array[state]", "enabled", 0)
    IN  CASE at = "start" /\ ~opt.enable -> Done(<<>>)
          [] at = "start" /\ opt.enable /\ ~dry ->
               Yield("update", <<Msg("Enabling Array", h.name, 0)>>,
                     <<Call("update_server_array", h, "_enable_array", params)>>)
          [] at = "start" /\ opt.enable /\ dry ->
               Done(<<Msg("Would enable array", h.name, 0)>>)
          [] at = "update" ->
               IF ans.ok THEN Done(<<>>) ELSE Failed(ans.err, <<>>)

\* a count that forgets the instances the array already has
LaunchMinCount(min_count, current_count) == min_count

\* Launch._launch_instances, lines 933-938: launch up to min_count
LaunchCount(min_count, current_count) ==
    IF min_count - current_count < 0 THEN 0 ELSE min_count - current_count

\* Launch._launch_instances from line 940 on; bound says whether
\* current_count and min_count were assigned on the way here
LaunchFrom(h, count, bound, current_count) ==
    IF dry
    THEN Done(<<Msg("Would have launched instances of array", h.name, count)>>)
    ELSE IF count < 1
    THEN IF bound
         THEN Done(<<Msg("This array already has instances", NoName,
                         current_count)>>)
         ELSE Failed("UnboundLocalError", <<>>)
    ELSE Ran("launch", "",
             <<Msg("Launching instances of array", h.name, count)>>,
             <<Call("launch_server_array", h, "_launch_instances",
                    Arg("count", "", count))>>, 0, Loc(count, 0, -1))

\* Launch._launch_instances, called with count = int(self.option('count'))
_launch_instances(h, at, ans, loc) ==
    CASE at = "start" /\ opt.count = 0 ->
           Yield("count", <<>>,
                 <<Call("get_server_array_current_instances", h,
                        "_launch_instances", Arg("state==operational", "", 0))>>)
      [] at = "start" /\ opt.count # 0 -> LaunchFrom(h, opt.count, FALSE, 0)
      [] at = "count" ->
           IF ~ans.ok THEN Failed(ans.err, <<>>)
           ELSE LaunchFrom(h, LaunchCount(h.min_count, ans.n), TRUE, ans.n)
      [] at = "launch" ->
           IF ans.ok
           THEN Done(<<Msg("Launched instances for array", h.name, loc.n)>>)
           ELSE Failed(ans.err, <<>>)

\* a _wait_until_healthy that is content with its first sample
WaitUntilHealthyOnce(h, at, ans, loc) ==
    LET query == Call("get_server_array_current_instances", h,
                      "_wait_until_healthy", Arg("state==operational", "", 0))
    IN  CASE at = "start" /\ dry ->
               Done(<<Msg("Pretending that array instances are launched.",
                          h.name, 0)>>)
          [] at = "start" /\ ~dry -> Yield("poll", <<>>, <<query>>)
          [] at = "poll" ->
               IF ~ans.ok THEN Failed(ans.err, <<>>)
               ELSE Ran("done", "",
                        <<Msg("instances found, waiting for", NoName, ans.n)>>,
                        <<>>, 0, Loc(0, 0, ans.n))
          [] at = "sleep" -> Yield("poll", <<>>, <<query>>)

\* Launch._wait_until_healthy
_wait_until_healthy(h, at, ans, loc) ==
    LET min_count == IF opt.count # 0 THEN opt.count ELSE h.min_count
        query == Call("get_server_array_current_instances", h,
                      "_wait_until_healthy", Arg("state==operational", "", 0))
    IN  CASE at = "start" /\ dry ->
               Done(<<Msg("Pretending that array instances are launched.",
                          h.name, 0)>>)
          [] at = "start" /\ ~dry -> Yield("poll", <<>>, <<query>>)
          [] at = "poll" ->
               IF ~ans.ok THEN Failed(ans.err, <<>>)
               ELSE IF min_count <= ans.n
               THEN Ran("done", "",
                        <<Msg("instances found, waiting for", NoName, ans.n)>>,
                        <<>>, 0, Loc(0, 0, ans.n))
               ELSE Ran("sleep", "",
                        <<Msg("instances found, waiting for", NoName, ans.n),
                          Msg("Sleeping..", NoName, 0)>>, <<>>, 1,
                        Loc(0, 0, ans.n))
          [] at = "sleep" -> Yield("poll", <<>>, <<query>>)

\* An element of a list the client returns: an instance or an input.
Item(name, arr, j, state) == [name |-> name, arr |-> arr, j |-> j, state |-> state]

\* a _check_array_inputs that is content with one input the array has
CheckArrayInputsAnyPresent(h, at, ans, loc) ==
    CASE at = "start" /\ h.fake ->
           Done(<<Msg("Cannot check inputs for non-existent array.", NoName, 0)>>)
      [] at = "start" /\ ~h.fake ->
           Yield("inputs", <<>>,
                 <<Call("get_server_array_inputs", h, "_check_array_inputs",
                        NoArg)>>)
      [] at = "inputs" ->
           IF ~ans.ok THEN Failed(ans.err, <<>>)
           ELSE LET all_input_names ==
                        {ans.insts[k].name : k \in 1..Len(ans.insts)}
                    missing == SelectSeq(opt.inputs,
                                   LAMBDA i : i.name \notin all_input_names)
                    errors == [k \in 1..Len(missing) |->
                                 Msg("Input not found",
                                     LookupName(missing[k].name), 0)]
                IN  IF missing = opt.inputs
                    THEN Failed("InvalidInputs", errors)
                    ELSE Done(<<>>)

\* Update._check_array_inputs, called with inputs = self.option('inputs')
_check_array_inputs(h, at, ans, loc) ==
    CASE at = "start" /\ h.fake ->
           Done(<<Msg("Cannot check inputs for non-existent array.", NoName, 0)>>)
      [] at = "start" /\ ~h.fake ->
           Yield("inputs", <<>>,
                 <<Call("get_server_array_inputs", h, "_check_array_inputs",
                        NoArg)>>)
      [] at = "inputs" ->
           IF ~ans.ok THEN Failed(ans.err, <<>>)
           ELSE LET all_input_names ==
                        {ans.insts[k].name : k \in 1..Len(ans.insts)}
                    missing == SelectSeq(opt.inputs,
                                   LAMBDA i : i.name \notin all_input_names)
                    errors == [k \in 1..Len(missing) |->
                                 Msg("Input not found",
                                     LookupName(missing[k].name), 0)]
                IN  IF missing # <<>>
                    THEN Failed("InvalidInputs", errors)
                    ELSE Done(<<>>)

\* an Update._update_params that swallows a 400 or 422 response
UpdateParamsSwallowingRejection(h, at, ans, loc) ==
    CASE at = "start" /\ ~opt.params -> Done(<<>>)
      [] at = "start" /\ opt.params ->
           Yield("update", <<Msg("Updating array with params", h.name, 0)>>,
                 <<Call("update_server_array", h, "_update_params",
                        Arg("server_array", "params", 0))>>)
      [] at = "update" ->
           IF ans.ok THEN Done(<<>>)
           ELSE IF ans.err \in {"HTTPError 400", "HTTPError 422"}
           THEN Done(<<>>)
           ELSE Failed(ans.err, <<>>)

\* Update._update_params
_update_params(h, at, ans, loc) ==
    CASE at = "start" /\ ~opt.params -> Done(<<>>)
      [] at = "start" /\ opt.params ->
           Yield("update", <<Msg("Updating array with params", h.name, 0)>>,
                 <<Call("update_server_array", h, "_update_params",
                        Arg("server_array", "params", 0))>>)
      [] at = "update" ->
           IF ans.ok THEN Done(<<>>)
           ELSE IF ans.err \in {"HTTPError 400", "HTTPError 422"}
           THEN Failed("RecoverableActorFailure", <<>>)
           ELSE Failed(ans.err, <<>>)

\* Update._update_inputs
_update_inputs(h, at, ans, loc) ==
    CASE at = "start" /\ opt.inputs = <<>> -> Done(<<>>)
      [] at = "start" /\ opt.inputs # <<>> ->
           Yield("update", <<Msg("Updating array with inputs", h.name, 0)>>,
                 <<Call("update_server_array_inputs", h, "_update_inputs",
                        Arg("inputs", "inputs", 0))>>)
      [] at = "update" ->
           IF ans.ok THEN Done(<<>>) ELSE Failed(ans.err, <<>>)

\* a _get_operational_instances that returns all it was given
GetAllInstances(h, all_instances) ==
    [ret |-> all_instances,
     log |-> <<Msg("Found instances in the Operational state", h.name,
                   Len(all_instances))>>]

\* Execute._get_operational_instances, from the client's answer on
_get_operational_instances(h, all_instances) ==
    LET operational == SelectSeq(all_instances,
                                 LAMBDA i : i.state = "operational")
        non_op == SelectSeq(all_instances, LAMBDA i : i.state # "operational")
        warn == IF Len(non_op) > 0
                THEN <<Msg("Found instances in a non-Operational state",
                           h.name, Len(non_op))>>
                ELSE <<>>
    IN  [ret |-> operational,
         log |-> warn \o <<Msg("Found instances in the Operational state",
                               h.name, Len(operational))>>]

\* Execute._wait_for_all_tasks up to its yield: one wait_for_task per pair
_wait_for_all_tasks(h, task_pairs) ==
    [log |-> <<Msg("Queueing tasks", NoName, Len(task_pairs)),
               Msg("Waiting for tasks to finish...", NoName, Len(task_pairs))>>,
     calls |-> [k \in 1..Len(task_pairs) |->
                  Call("wait_for_task", h, "_wait_for_all_tasks",
                       ArgInstances("task", <<task_pairs[k]>>))]]

\* Execute._execute_array after _wait_for_all_tasks has returned; loc.n tasks
\* were submitted, loc.m of them did not succeed
ExecuteOutcome(loc) ==
    IF loc.m > 0
    THEN Ran("failed", "TaskExecutionFailed",
             <<Msg("One or more tasks failed.", NoName, 0)>>, <<>>, 0, loc)
    ELSE Ran("done", "", <<Msg("Completed tasks.", NoName, loc.n)>>, <<>>, 0,
             loc)

\* a wait that gives up at the first task that did not succeed
FirstStatusDecides(at, ans, loc) ==
    IF ans.ok /\ ans.n # 1
    THEN ExecuteOutcome(Loc(loc.n, loc.m + 1, loc.sample - 1))
    ELSE IF loc.sample > 1
    THEN Ran("wait_tasks", "", <<>>, <<>>, 0, Loc(loc.n, loc.m, loc.sample - 1))
    ELSE ExecuteOutcome(Loc(loc.n, loc.m, 0))

\* `statuses = yield task_waiting` (line 1179) and all(statuses): one of the
\* awaited wait_for_task calls ends, with a status (ans.n = 1: success) or
\* with an exception; the yield resumes when none is left, raising the
\* exception if there was one
AllStatuses(at, ans, loc) ==
    LET m == IF ans.ok /\ ans.n # 1 THEN loc.m + 1 ELSE loc.m
        raised == at = "wait_tasks_raised" \/ ~ans.ok
    IN  IF loc.sample > 1
        THEN Ran(IF raised THEN "wait_tasks_raised" ELSE "wait_tasks", "",
                 <<>>, <<>>, 0, Loc(loc.n, m, loc.sample - 1))
        ELSE IF raised
        THEN Ran("failed", "HTTPError 500", <<>>, <<>>, 0, Loc(loc.n, m, 0))
        ELSE ExecuteOutcome(Loc(loc.n, m, 0))

\* an Execute._execute_array that logs a rejected submission and goes on
ExecuteArrayIgnoringRejection(h, at, ans, loc) ==
    CASE at = "start" ->
           Yield("instances", <<>>,
                 <<Call("get_server_array_current_instances", h,
                        "_get_operational_instances",
                        Arg("state<>terminated", "", 0))>>)
      [] at = "instances" ->
           IF ~ans.ok THEN Failed(ans.err, <<>>)
           ELSE LET got == _get_operational_instances(h, ans.insts)
                IN  IF dry
                    THEN Done(got.log \o <<Msg("Would have executed", h.name, 0)>>)
                    ELSE Ran("run", "",
                             got.log \o <<Msg("Executing on instances in the array",
                                              h.name, Len(got.ret))>>,
                             <<Call("run_executable_on_instances", h,
                                    "_execute_array",
                                    ArgInstances(opt.script, got.ret))>>,
                             0, Loc(Len(got.ret), 0, -1))
      [] at = "run" ->
           IF ~ans.ok
           THEN IF ans.err = "ServerArrayException"
                THEN Done(<<Msg("Script execution error", NoName, 0)>>)
                ELSE Failed(ans.err, <<>>)
           ELSE LET w == _wait_for_all_tasks(h, ans.insts)
                IN  IF ans.insts = <<>>
                    THEN LET out == ExecuteOutcome(Loc(loc.n, 0, 0))
                         IN  [out EXCEPT !.log = w.log \o @]
                    ELSE Ran("wait_tasks", "", w.log, w.calls, 0,
                             Loc(loc.n, 0, Len(ans.insts)))
      [] at \in {"wait_tasks", "wait_tasks_raised"} -> AllStatuses(at, ans, loc)

\* Execute._execute_array; while it waits for its tasks loc.sample counts
\* the tasks still running
_execute_array(h, at, ans, loc) ==
    CASE at = "start" ->
           Yield("instances", <<>>,
                 <<Call("get_server_array_current_instances", h,
                        "_get_operational_instances",
                        Arg("state<>terminated", "", 0))>>)
      [] at = "instances" ->
           IF ~ans.ok THEN Failed(ans.err, <<>>)
           ELSE LET got == _get_operational_instances(h, ans.insts)
                IN  IF dry
                    THEN Done(got.log \o <<Msg("Would have executed", h.name, 0)>>)
                    ELSE Ran("run", "",
                             got.log \o <<Msg("Executing on instances in the array",
                                              h.name, Len(got.ret))>>,
                             <<Call("run_executable_on_instances", h,
                                    "_execute_array",
                                    ArgInstances(opt.script, got.ret))>>,
                             0, Loc(Len(got.ret), 0, -1))
      [] at = "run" ->
           IF ~ans.ok
           THEN IF ans.err = "ServerArrayException"
                THEN Failed("RecoverableActorFailure",
                            <<Msg("Script execution error", NoName, 0)>>)
                ELSE Failed(ans.err, <<>>)
           ELSE LET w == _wait_for_all_tasks(h, ans.insts)
                IN  IF ans.insts = <<>>
                    THEN LET out == ExecuteOutcome(Loc(loc.n, 0, 0))
                         IN  [out EXCEPT !.log = w.log \o @]
                    ELSE Ran("wait_tasks", "", w.log, w.calls, 0,
                             Loc(loc.n, 0, Len(ans.insts)))
      [] at \in {"wait_tasks", "wait_tasks_raised"} -> AllStatuses(at, ans, loc)

\* _apply's call of `function` on one array
Invoke(fn, h, at, ans, loc) ==
    CASE fn = "_disable_array" -> _disable_array(h, at, ans, loc)
      [] fn = "_terminate_all_instances" ->
           _terminate_all_instances(h, at, ans, loc)
      [] fn = "_wait_until_empty" -> _wait_until_empty(h, at, ans, loc)
      [] fn = "_destroy_array" -> _destroy_array(h, at, ans, loc)
      [] fn = "_enable_array" -> _enable_array(h, at, ans, loc)
      [] fn = "_launch_instances" -> _launch_instances(h, at, ans, loc)
      [] fn = "_wait_until_healthy" -> _wait_until_healthy(h, at, ans, loc)
      [] fn = "_check_array_inputs" -> _check_array_inputs(h, at, ans, loc)
      [] fn = "_update_params" -> _update_params(h, at, ans, loc)
      [] fn = "_update_inputs" -> _update_inputs(h, at, ans, loc)
      [] fn = "_execute_array" -> _execute_array(h, at, ans, loc)

(***************************************************************************)
(* The _execute coroutine of each actor, as the sequence of its steps.     *)
(***************************************************************************)
FindStep(name, raise_on, allow_mock, exact, keep) ==
    [kind |-> "find", name |-> name, raise_on |-> raise_on,
     allow_mock |-> allow_mock, exact |-> exact, fn |-> "", keep |-> keep]
ApplyStep(fn) ==
    [kind |-> "apply", name |-> "", raise_on |-> "", allow_mock |-> FALSE,
     exact |-> TRUE, fn |-> fn, keep |-> FALSE]
PlainStep(kind) ==
    [kind |-> kind, name |-> "", raise_on |-> "", allow_mock |-> FALSE,
     exact |-> TRUE, fn |-> "", keep |-> FALSE]

\* a Clone._execute that looks the destination up before the source
CloneLookingUpDestFirst ==
    LET _source_raise_on == IF opt.strict_source THEN "notfound" ELSE "None"
        _source_allow_mock == ~opt.strict_source
        _dest_raise_on == IF opt.strict_dest THEN "found" ELSE "None"
        _dest_allow_mock == ~opt.strict_dest
    IN  <<FindStep("dest", _dest_raise_on, _dest_allow_mock, TRUE, FALSE),
          FindStep("source", _source_raise_on, _source_allow_mock, TRUE, TRUE),
          PlainStep("clone"), PlainStep("rename")>>

\* Clone.__init__ and Clone._execute
Clone_execute ==
    LET _source_raise_on == IF opt.strict_source THEN "notfound" ELSE "None"
        _source_allow_mock == ~opt.strict_source
        _dest_raise_on == IF opt.strict_dest THEN "found" ELSE "None"
        _dest_allow_mock == ~opt.strict_dest
    IN  <<FindStep("source", _source_raise_on, _source_allow_mock, TRUE, TRUE),
          FindStep("dest", _dest_raise_on, _dest_allow_mock, TRUE, FALSE),
          PlainStep("clone"), PlainStep("rename")>>

\* an Update._execute that looks its array up with raise_on=None
UpdateWithPolicyNone ==
    <<FindStep("array", "None", TRUE, opt.exact, TRUE)>> \o
    (IF dry
     THEN <<PlainStep("dry_notes")>> \o
          (IF opt.inputs # <<>> THEN <<ApplyStep("_check_array_inputs")>>
           ELSE <<>>)
     ELSE <<ApplyStep("_update_params"), ApplyStep("_update_inputs")>>)

\* Update._execute
Update_execute ==
    <<FindStep("array", "notfound", TRUE, opt.exact, TRUE)>> \o
    (IF dry
     THEN <<PlainStep("dry_notes")>> \o
          (IF opt.inputs # <<>> THEN <<ApplyStep("_check_array_inputs")>>
           ELSE <<>>)
     ELSE <<ApplyStep("_update_params"), ApplyStep("_update_inputs")>>)

\* a Terminate._execute that does not wait for the arrays to be empty
TerminateWithoutWait ==
    LET _raise_on == IF opt.strict THEN "notfound" ELSE "None"
        _allow_mock == ~opt.strict
    IN  <<FindStep("array", _raise_on, _allow_mock, opt.exact, TRUE),
          ApplyStep("_disable_array"),
          ApplyStep("_terminate_all_instances")>>

\* Terminate.__init__ and Terminate._execute
Terminate_execute ==
    LET _raise_on == IF opt.strict THEN "notfound" ELSE "None"
        _allow_mock == ~opt.strict
    IN  <<FindStep("array", _raise_on, _allow_mock, opt.exact, TRUE),
          ApplyStep("_disable_array"),
          ApplyStep("_terminate_all_instances"),
          ApplyStep("_wait_until_empty")>>

\* a Destroy._execute without its super()._execute()
DestroyWithoutTerminate ==
    <<FindStep("array", IF opt.strict THEN "notfound" ELSE "None", ~opt.strict,
               opt.exact, TRUE),
      ApplyStep("_destroy_array")>>

\* a Destroy._execute that destroys the arrays before it terminates them
DestroyBeforeTerminate ==
    <<FindStep("array", IF opt.strict THEN "notfound" ELSE "None", ~opt.strict,
               opt.exact, TRUE),
      ApplyStep("_destroy_array")>> \o Terminate_execute

\* Destroy._execute
Destroy_execute ==
    LET _raise_on == IF opt.strict THEN "notfound" ELSE "None"
        _allow_mock == ~opt.strict
    IN  Terminate_execute \o
        <<FindStep("array", _raise_on, _allow_mock, opt.exact, TRUE),
          ApplyStep("_destroy_array")>>

\* Launch._execute
Launch_execute ==
    <<FindStep("array", "notfound", TRUE, opt.exact, TRUE),
      ApplyStep("_enable_array"),
      ApplyStep("_launch_instances"),
      ApplyStep("_wait_until_healthy")>>

\* an Execute._execute that checks its inputs before it looks for the script
ExecuteCheckingInputsFirst ==
    (IF dry THEN <<PlainStep("check_inputs"), PlainStep("check_script")>>
     ELSE <<>>) \o
    <<FindStep("array", "notfound", TRUE, opt.exact, TRUE),
      ApplyStep("_execute_array")>>

\* Execute._execute
Execute_execute ==
    (IF dry THEN <<PlainStep("check_script"), PlainStep("check_inputs")>>
     ELSE <<>>) \o
    <<FindStep("array", "notfound", TRUE, opt.exact, TRUE),
      ApplyStep("_execute_array")>>

\* A bare call of _find_server_arrays with the arguments in opt
Locate_execute ==
    <<FindStep("array", opt.raise_on, opt.allow_mock, opt.exact, TRUE)>>

Steps ==
    CASE op = "Clone" -> Clone_execute
      [] op = "Update" -> Update_execute
      [] op = "Terminate" -> Terminate_execute
      [] op = "Destroy" -> Destroy_execute
      [] op = "Launch" -> Launch_execute
      [] op = "Execute" -> Execute_execute
      [] op = "_find_server_arrays" -> Locate_execute

Running == result.status = "running"
AtStep(kind) ==
    Running /\ pc = "ready" /\ step <= Len(Steps) /\ Steps[step].kind = kind

Raised(exc, by) == [status |-> "raised", exc |-> exc, by |-> by]
NotRaised(status) == [status |-> status, exc |-> "", by |-> 0]

RECURSIVE Flatten(_)
Flatten(ss) == IF ss = <<>> THEN <<>> ELSE Head(ss) \o Flatten(Tail(ss))

RECURSIVE Sum(_)
Sum(ns) == IF ns = <<>> THEN 0 ELSE Head(ns) + Sum(Tail(ns))

(***************************************************************************)
(* RightScaleBaseActor._generate_rightscale_params (base.py).  A string is *)
(* the sequence of its characters.  A value is a scalar, a dict (its items *)
(* in iteration order) or a list.                                          *)
(***************************************************************************)
Scalar(v) == [t |-> "scalar", v |-> v, kids |-> <<>>]
Dict(items) == [t |-> "dict", v |-> 0, kids |-> items]
PyList(elts) ==
    [t |-> "list", v |-> 0,
     kids |-> [i \in 1..Len(elts) |-> [k |-> <<>>, d |-> elts[i]]]]
KV(k, d) == [k |-> k, d |-> d]
Pair(key, value) == [key |-> key, value |-> value]

Flat(exc, items) == [exc |-> exc, items |-> items]

\* items.extend(...) over the results of the recursive calls, in order; an
\* exception raised by one of them ends the loop
RECURSIVE Extend(_)
Extend(rs) ==
    IF rs = <<>> THEN Flat("", <<>>)
    ELSE IF Head(rs).exc # "" THEN Flat(Head(rs).exc, <<>>)
    ELSE LET rest == Extend(Tail(rs))
         IN  IF rest.exc # "" THEN rest
             ELSE Flat("", Head(rs).items \o rest.items)

\* a flatten that joins the keys with its `sep` argument
RECURSIVE flattenWithSep(_, _)
flattenWithSep(d, parent_key) ==
    CASE d.t = "dict" ->
           Extend([i \in 1..Len(d.kids) |->
                     flattenWithSep(d.kids[i].d,
                                    IF parent_key # <<>>
                                    THEN parent_key \o <<"_">> \o d.kids[i].k
                                    ELSE d.kids[i].k)])
      [] d.t = "list" ->
           IF parent_key = <<>> THEN Flat("UnboundLocalError", <<>>)
           ELSE Extend([i \in 1..Len(d.kids) |->
                          flattenWithSep(d.kids[i].d, parent_key \o <<"[", "]">>)])
      [] OTHER -> Flat("", <<Pair(parent_key, d.v)>>)

\* flatten(d, parent_key), lines 98-115.  In the list branch `k` is unbound
\* when parent_key is empty.
RECURSIVE flatten(_, _)
flatten(d, parent_key) ==
    CASE d.t = "dict" ->
           Extend([i \in 1..Len(d.kids) |->
                     flatten(d.kids[i].d,
                             IF parent_key # <<>>
                             THEN parent_key \o <<"[">> \o d.kids[i].k \o <<"]">>
                             ELSE d.kids[i].k)])
      [] d.t = "list" ->
           IF parent_key = <<>> THEN Flat("UnboundLocalError", <<>>)
           ELSE Extend([i \in 1..Len(d.kids) |->
                          flatten(d.kids[i].d, parent_key \o <<"[", "]">>)])
      [] OTHER -> Flat("", <<Pair(parent_key, d.v)>>)

\* a _generate_rightscale_params that leaves the prefix out
GenerateWithoutPrefix(prefix, params) ==
    IF params.t # "dict" THEN Flat("InvalidOptions", <<>>)
    ELSE flatten(params, <<>>)

\* _generate_rightscale_params(prefix, params), lines 92-117
_generate_rightscale_params(prefix, params) ==
    IF params.t # "dict" THEN Flat("InvalidOptions", <<>>)
    ELSE flatten(params, prefix)

Encoding(prefix, params, at, ret) ==
    [prefix |-> prefix, params |-> params, pc |-> at, ret |-> ret]
NoEncoding == Encoding(<<>>, Scalar(0), "none", Flat("", <<>>))

\* one call of _generate_rightscale_params
Generate ==
    /\ enc.pc = "called"
    /\ enc' = Encoding(enc.prefix, enc.params, "returned",
                       _generate_rightscale_params(enc.prefix, enc.params))
    /\ UNCHANGED <<op, dry, opt, step, pc, found, inst, arrays, tasks, calls,
                   log, result, sleeps, run, prev>>

(***************************************************************************)
(* The RightScale client, as far as the actors observe it.                 *)
(***************************************************************************)
\* get_server_array_current_instances(array, filters): the instances of a
\* real array in the remote state; a fabricated array has none
get_server_array_current_instances(h, filter) ==
    IF h.id \notin ArrayIds THEN <<>>
    ELSE LET operational == [j \in 1..inst[h.id].op |->
                               Item("instance", h.id, j, "operational")]
             booting == [j \in 1..inst[h.id].non |->
                           Item("instance", h.id, inst[h.id].op + j, "booting")]
         IN  IF filter = "state==operational" THEN operational
             ELSE operational \o booting

\* get_server_array_inputs(array): array 1 has input A, the others A and B
get_server_array_inputs(h) ==
    IF h.id = 1 THEN <<Item("A", h.id, 0, "")>>
    ELSE <<Item("A", h.id, 0, ""), Item("B", h.id, 0, "")>>

\* The errors a client call can raise
Faults(fn) ==
    CASE fn = "_update_params" ->
           {"HTTPError 400", "HTTPError 422", "HTTPError 500"}
      [] fn = "_execute_array" -> {"ServerArrayException", "HTTPError 500"}
      [] OTHER -> {"HTTPError 500"}

(***************************************************************************)
(* _find_server_arrays as a step of _execute.                              *)
(***************************************************************************)
StartFind ==
    /\ AtStep("find")
    /\ LET s == Steps[step]
       IN  IF s.raise_on \notin {"notfound", "found", "None"}
           THEN /\ result' = Raised("UnrecoverableActorFailure", 0)
                /\ UNCHANGED <<pc, log, calls>>
           ELSE /\ log' = Append(log, FindMsg(s.name, s.raise_on))
                /\ calls' = Append(calls,
                                   Call("find_server_arrays", NoArray,
                                        "_find_server_arrays",
                                        Arg(s.name, "", IF s.exact THEN 1 ELSE 0)))
                /\ pc' = "finding"
                /\ UNCHANGED result
    /\ UNCHANGED <<enc, op, dry, opt, step, found, inst, arrays, tasks, sleeps, run,
                   prev>>

FindReturn ==
    /\ Running /\ pc = "finding"
    /\ \E r \in RandPaths :
          LET s == Steps[step]
              out == _find_server_arrays(s.name, s.raise_on, s.allow_mock,
                                         found[s.name], r)
          IN  /\ log' = log \o out.log
              /\ IF out.exc # ""
                 THEN /\ result' = Raised(out.exc, 0)
                      /\ UNCHANGED <<pc, step, arrays>>
                 ELSE /\ arrays' = IF s.keep THEN out.ret ELSE arrays
                      /\ pc' = "ready"
                      /\ step' = step + 1
                      /\ UNCHANGED result
    /\ UNCHANGED <<enc, op, dry, opt, found, inst, tasks, calls, sleeps, run, prev>>

FindFails ==
    /\ Running /\ pc = "finding"
    /\ result' = Raised("HTTPError 500", 0)
    /\ UNCHANGED <<enc, op, dry, opt, step, pc, found, inst, arrays, tasks, calls,
                   log, sleeps, run, prev>>

(***************************************************************************)
(* ServerArrayBaseActor._apply.                                            *)
(***************************************************************************)
Finished(t) == t.pc \in {"done", "failed"}
AllFinished(ts) == \A i \in 1..Len(ts) : Finished(ts[i])
NumFinished(ts) == Cardinality({i \in 1..Len(ts) : Finished(ts[i])})

\* `arrays` as the list _apply iterates over (lines 144-145)
AsList(a) == IF a.list THEN a.items ELSE a.items

\* lines 144-154: one coroutine per array, each run up to its first yield;
\* arrays = None becomes [None], and None.soul on line 150 raises
_apply(fn, arrs) ==
    LET hs == AsList(arrs)
        first == [i \in 1..Len(hs) |-> Invoke(fn, hs[i], "start", NoAns, NoLoc)]
        order == [i \in 1..Len(hs) |->
                    Cardinality({j \in 1..i : first[j].pc \in {"done", "failed"}})]
    IN  [exc |-> IF arrs = None THEN "AttributeError" ELSE "",
         tasks |-> [i \in 1..Len(hs) |->
                      [arr |-> hs[i], pc |-> first[i].pc, exc |-> first[i].exc,
                       loc |-> first[i].loc, polls |-> 0,
                       fin |-> IF first[i].pc \in {"done", "failed"}
                               THEN order[i] ELSE 0]],
         log |-> Flatten([i \in 1..Len(hs) |->
                            <<Msg("Adding to async call list", hs[i].name, 0)>>
                            \o first[i].log])
                 \o <<Msg("Calling all functions in async call list", NoName, 0)>>,
         calls |-> Flatten([i \in 1..Len(hs) |-> first[i].calls]),
         slept |-> Sum([i \in 1..Len(hs) |-> first[i].slept])]

StartApply ==
    /\ AtStep("apply")
    /\ LET a == _apply(Steps[step].fn, arrays)
       IN  IF a.exc # ""
           THEN /\ result' = Raised(a.exc, 0)
                /\ UNCHANGED <<pc, tasks, log, calls, sleeps>>
           ELSE /\ tasks' = a.tasks
                /\ log' = log \o a.log
                /\ calls' = calls \o a.calls
                /\ sleeps' = sleeps + a.slept
                /\ pc' = "joining"
                /\ UNCHANGED result
    /\ UNCHANGED <<enc, op, dry, opt, step, found, inst, arrays, run, prev>>

\* a `yield tasks` that resumes as soon as one coroutine is done
JoinOnFirstDone(ts) ==
    ts = <<>> \/ \E i \in 1..Len(ts) : Finished(ts[i])

\* a `yield tasks` that gives up at the first failure
JoinOnFirstFailure(ts) ==
    AllFinished(ts) \/ \E i \in 1..Len(ts) : ts[i].pc = "failed"

\* `yield tasks` (line 155) may resume once these coroutines allow it
JoinReady(ts) == AllFinished(ts)

\* a `yield tasks` that raises the failure that happened first
YieldFirstFailure(ts) ==
    LET failed == {i \in 1..Len(ts) : ts[i].pc = "failed"}
    IN  IF failed = {} THEN [exc |-> "", by |-> 0]
        ELSE LET i == CHOOSE k \in failed : \A j \in failed : ts[k].fin <= ts[j].fin
             IN  [exc |-> ts[i].exc, by |-> i]

\* `yield tasks` (line 155): the exception it raises, if any, and the index
\* of the coroutine that raised it
YieldAll(ts) ==
    LET failed == {i \in 1..Len(ts) : ts[i].pc = "failed"}
    IN  IF failed = {} THEN [exc |-> "", by |-> 0]
        ELSE LET i == CHOOSE k \in failed : \A j \in failed : k <= j
             IN  [exc |-> ts[i].exc, by |-> i]

\* Terminate._execute with a disable stage whose failures are dropped
JoinDroppingDisableFailures ==
    /\ Running /\ pc = "joining"
    /\ JoinReady(tasks)
    /\ LET y == YieldAll(tasks)
       IN  IF y.exc # "" /\ Steps[step].fn # "_disable_array"
           THEN /\ result' = Raised(y.exc, y.by)
                /\ UNCHANGED <<pc, step>>
           ELSE /\ pc' = "ready"
                /\ step' = step + 1
                /\ UNCHANGED result
    /\ UNCHANGED <<enc, op, dry, opt, found, inst, arrays, tasks, calls, log,
                   sleeps, run, prev>>

\* _execute resumes from `yield self._apply(...)` (Terminate: lines 646-652)
Join ==
    /\ Running /\ pc = "joining"
    /\ JoinReady(tasks)
    /\ LET y == YieldAll(tasks)
       IN  IF y.exc # ""
           THEN /\ result' = Raised(y.exc, y.by)
                /\ UNCHANGED <<pc, step>>
           ELSE /\ pc' = "ready"
                /\ step' = step + 1
                /\ UNCHANGED result
    /\ UNCHANGED <<enc, op, dry, opt, found, inst, arrays, tasks, calls, log,
                   sleeps, run, prev>>

\* Coroutine i of the running _apply is resumed with the answer ans
Resume(i, ans, sampled) ==
    LET t == tasks[i]
        r == Invoke(Steps[step].fn, t.arr, t.pc, ans, t.loc)
    IN  /\ tasks' = [tasks EXCEPT ![i] =
                       [arr |-> t.arr, pc |-> r.pc, exc |-> r.exc,
                        loc |-> r.loc, polls |-> t.polls + sampled,
                        fin |-> IF r.pc \in {"done", "failed"}
                                THEN NumFinished(tasks) + 1 ELSE 0]]
        /\ log' = log \o r.log
        /\ calls' = calls \o r.calls
        /\ sleeps' = sleeps + r.slept
        /\ UNCHANGED <<enc, op, dry, opt, step, pc, found, inst, arrays, result,
                       run, prev>>

Waiting(i, labels) ==
    /\ result.status = "running" /\ pc = "joining"
    /\ i \in 1..Len(tasks)
    /\ tasks[i].pc \in labels

\* a mutating client call of coroutine i returns, or raises
ClientReturn(i) ==
    /\ Waiting(i, {"update", "terminate", "destroy", "launch"})
    /\ Resume(i, NoAns, 0)

ClientFails(i) ==
    /\ Waiting(i, {"update", "terminate", "destroy", "launch", "run", "poll",
                   "count", "instances", "inputs", "wait_task"})
    /\ \E e \in Faults(Steps[step].fn) : Resume(i, Ans(FALSE, e, 0, <<>>), 0)

\* get_server_array_current_instances returns to coroutine i
InstancesReturn(i) ==
    /\ Waiting(i, {"poll", "count", "instances"})
    /\ LET filter == IF Steps[step].fn \in {"_launch_instances",
                                            "_wait_until_healthy"}
                     THEN "state==operational" ELSE ""
           got == get_server_array_current_instances(tasks[i].arr, filter)
       IN  Resume(i, Ans(TRUE, "", Len(got), got),
                  IF tasks[i].pc = "poll" THEN 1 ELSE 0)

\* get_server_array_inputs returns to coroutine i
InputsReturn(i) ==
    /\ Waiting(i, {"inputs"})
    /\ LET got == get_server_array_inputs(tasks[i].arr)
       IN  Resume(i, Ans(TRUE, "", Len(got), got), 0)

\* run_executable_on_instances returns one (instance, task) pair per instance
RunReturn(i) ==
    /\ Waiting(i, {"run"})
    /\ LET pairs == [k \in 1..tasks[i].loc.n |->
                       Item("task", tasks[i].arr.id, k, "")]
       IN  Resume(i, Ans(TRUE, "", Len(pairs), pairs), 0)

\* a task awaited with wait_for_task ends, successfully (1) or not (0)
TaskEnds(i) ==
    /\ Waiting(i, {"wait_task", "wait_tasks", "wait_tasks_raised"})
    /\ \E status \in {0, 1} : Resume(i, Ans(TRUE, "", status, <<>>), 0)

\* a wait_for_task awaited by _wait_for_all_tasks raises
WaitFails(i) ==
    /\ Waiting(i, {"wait_tasks", "wait_tasks_raised"})
    /\ Resume(i, Ans(FALSE, "HTTPError 500", 0, <<>>), 0)

\* a tornado_sleep that never ends
SleepNeverOver(i) ==
    /\ Waiting(i, {"sleep"})
    /\ FALSE
    /\ UNCHANGED vars

\* utils.tornado_sleep(sleep) is over
SleepOver(i) ==
    /\ Waiting(i, {"sleep"})
    /\ tasks[i].polls < MaxPolls
    /\ Resume(i, NoAns, 0)

\* The remote instances of an array change while its poller sleeps
InstCfgs == {c \in [op : 0..MaxInst, non : 0..MaxInst] : c.op + c.non <= MaxInst}

InstancesChange ==
    /\ Running /\ pc = "joining"
    /\ \E i \in 1..Len(tasks) :
          /\ tasks[i].pc = "sleep"
          /\ tasks[i].polls < MaxPolls
          /\ \E c \in InstCfgs :
                /\ inst[tasks[i].arr.id] # c
                /\ inst' = [inst EXCEPT ![tasks[i].arr.id] = c]
    /\ UNCHANGED <<enc, op, dry, opt, step, pc, found, arrays, tasks, calls, log,
                   result, sleeps, run, prev>>

(***************************************************************************)
(* The steps of Clone, Update and Execute that are not fan-outs.           *)
(***************************************************************************)
\* Clone._execute, lines 284-294
CloneOf(h) ==
    [fake |-> FALSE, mock |-> FALSE, id |-> 0,
     name |-> [kind |-> "clone of array", of |-> "", id |-> h.id],
     path |-> MaxArrays + h.id, min_count |-> h.min_count]
MockClone ==
    [fake |-> FALSE, mock |-> TRUE, id |-> 0,
     name |-> [kind |-> "mocked clone of", of |-> "source", id |-> 0],
     path |-> 0, min_count |-> 0]

CloneArray ==
    /\ AtStep("clone")
    /\ IF arrays = None
       THEN \* source_array.soul on line 285 raises
            /\ result' = Raised("AttributeError", 0)
            /\ UNCHANGED <<pc, step, arrays, log, calls>>
       ELSE /\ log' = Append(log, Msg("Cloning array", arrays.items[1].name, 0))
            /\ IF ~dry
               THEN /\ calls' = Append(calls,
                                  Call("clone_server_array", arrays.items[1],
                                       "_execute", NoArg))
                    /\ pc' = "cloning"
                    /\ UNCHANGED <<step, arrays>>
               ELSE /\ arrays' = One(MockClone)
                    /\ step' = step + 1
                    /\ UNCHANGED <<pc, calls>>
            /\ UNCHANGED result
    /\ UNCHANGED <<enc, op, dry, opt, found, inst, tasks, sleeps, run, prev>>

CloneReturn ==
    /\ Running /\ pc = "cloning"
    /\ arrays' = One(CloneOf(arrays.items[1]))
    /\ pc' = "ready"
    /\ step' = step + 1
    /\ UNCHANGED <<enc, op, dry, opt, found, inst, tasks, calls, log, result,
                   sleeps, run, prev>>

\* a rename that a dry run leaves out
RenameUnlessDry ==
    /\ AtStep("rename")
    /\ log' = Append(log, Msg("Renaming array", arrays.items[1].name, 0))
    /\ IF dry
       THEN /\ step' = step + 1
            /\ UNCHANGED <<calls, pc>>
       ELSE /\ calls' = Append(calls, Call("update_server_array", arrays.items[1],
                                          "_execute",
                                          Arg("server_array[name]", "dest", 0)))
            /\ pc' = "renaming"
            /\ UNCHANGED step
    /\ UNCHANGED <<enc, op, dry, opt, found, inst, arrays, tasks, result,
                   sleeps, run, prev>>

\* Clone._execute, lines 296-302
Rename ==
    /\ AtStep("rename")
    /\ log' = Append(log, Msg("Renaming array", arrays.items[1].name, 0))
    /\ calls' = Append(calls, Call("update_server_array", arrays.items[1],
                                   "_execute", Arg("server_array[name]", "dest", 0)))
    /\ pc' = "renaming"
    /\ UNCHANGED <<enc, op, dry, opt, step, found, inst, arrays, tasks, result,
                   sleeps, run, prev>>

RenameReturn ==
    /\ Running /\ pc = "renaming"
    /\ pc' = "ready"
    /\ step' = step + 1
    /\ UNCHANGED <<enc, op, dry, opt, found, inst, arrays, tasks, calls, log,
                   result, sleeps, run, prev>>

\* a client call made by _execute itself raises
CallFails ==
    /\ Running /\ pc \in {"cloning", "renaming", "checking_script"}
    /\ result' = Raised("HTTPError 500", 0)
    /\ UNCHANGED <<enc, op, dry, opt, step, pc, found, inst, arrays, tasks, calls,
                   log, sleeps, run, prev>>

\* Update._execute, lines 484-489
DryNotes ==
    /\ AtStep("dry_notes")
    /\ log' = log \o <<Msg("Not making any changes.", NoName, 0)>>
                  \o (IF opt.params
                      THEN <<Msg("Params would be", NoName, 0)>> ELSE <<>>)
                  \o (IF opt.inputs # <<>>
                      THEN <<Msg("Inputs would be", NoName, Len(opt.inputs))>>
                      ELSE <<>>)
    /\ step' = step + 1
    /\ UNCHANGED <<enc, op, dry, opt, pc, found, inst, arrays, tasks, calls, result,
                   sleeps, run, prev>>

\* Execute._check_script up to its yield
CheckScript ==
    /\ AtStep("check_script")
    /\ calls' = Append(calls,
                       Call(IF opt.script = "cookbook::recipe"
                            THEN "find_cookbook" ELSE "find_right_script",
                            NoArray, "_check_script", Arg(opt.script, "", 0)))
    /\ pc' = "checking_script"
    /\ UNCHANGED <<enc, op, dry, opt, step, found, inst, arrays, tasks, log, result,
                   sleeps, run, prev>>

\* Execute._execute, lines 1249-1253
CheckScriptReturn ==
    /\ Running /\ pc = "checking_script"
    /\ IF Truthy(found["script"])
       THEN /\ pc' = "ready"
            /\ step' = step + 1
            /\ UNCHANGED result
       ELSE /\ result' = Raised("InvalidOptions", 0)
            /\ UNCHANGED <<pc, step>>
    /\ UNCHANGED <<enc, op, dry, opt, found, inst, arrays, tasks, calls, log,
                   sleeps, run, prev>>

\* Execute._check_inputs
InputTypes == {"text", "ignore", "env", "cred", "key", "array"}

\* an Execute._check_inputs that stops after the first input
CheckInputsFirstOnly ==
    LET first == IF opt.inputs = <<>> THEN <<>> ELSE <<Head(opt.inputs)>>
        bad == SelectSeq(first, LAMBDA i : i.scheme \notin InputTypes)
    IN  [exc |-> IF bad # <<>> THEN "InvalidOptions" ELSE "",
         log |-> [k \in 1..Len(bad) |->
                    Msg("Value needs to begin with one of the types",
                        LookupName(bad[k].name), 0)]]

_check_inputs ==
    LET bad == SelectSeq(opt.inputs, LAMBDA i : i.scheme \notin InputTypes)
    IN  [exc |-> IF bad # <<>> THEN "InvalidOptions" ELSE "",
         log |-> [k \in 1..Len(bad) |->
                    Msg("Value needs to begin with one of the types",
                        LookupName(bad[k].name), 0)]]

CheckInputs ==
    /\ AtStep("check_inputs")
    /\ log' = log \o _check_inputs.log
    /\ IF _check_inputs.exc # ""
       THEN /\ result' = Raised(_check_inputs.exc, 0)
            /\ UNCHANGED step
       ELSE /\ step' = step + 1
            /\ UNCHANGED result
    /\ UNCHANGED <<enc, op, dry, opt, pc, found, inst, arrays, tasks, calls, sleeps,
                   run, prev>>

\* _execute returns
Finish ==
    /\ Running /\ pc = "ready" /\ step > Len(Steps)
    /\ result' = NotRaised("ok")
    /\ UNCHANGED <<enc, op, dry, opt, step, pc, found, inst, arrays, tasks, calls,
                   log, sleeps, run, prev>>

(***************************************************************************)
(* Option values as the caller gives them, and Python's int() of them.     *)
(***************************************************************************)
\* An input of the option `inputs`: its name and the scheme of its value
Input(name, scheme) == [name |-> name, scheme |-> scheme]

\* An option that is left out, or given as an int, a str or a bool
Absent == [kind |-> "absent", n |-> 0, s |-> <<>>, b |-> FALSE]
GivenInt(n) == [kind |-> "int", n |-> n, s |-> <<>>, b |-> FALSE]
GivenStr(s) == [kind |-> "str", n |-> 0, s |-> s, b |-> FALSE]
GivenBool(b) == [kind |-> "bool", n |-> 0, s |-> <<>>, b |-> b]
\* a dict of n keys
GivenDict(n) == [kind |-> "dict", n |-> n, s |-> <<>>, b |-> FALSE]

\* self._options.get(name, False): False when the option is left out
Get(given) == IF given.kind = "absent" THEN GivenBool(FALSE) ELSE given

\* Python truth value of an option value
IsTrue(v) ==
    CASE v.kind = "bool" -> v.b
      [] v.kind = "int" -> v.n # 0
      [] v.kind = "str" -> v.s # <<>>
      [] v.kind = "dict" -> v.n # 0
      [] OTHER -> FALSE

DigitValue == [c \in {"0", "1", "2"} |-> CASE c = "0" -> 0 [] c = "1" -> 1 [] c = "2" -> 2]

RECURSIVE StripLeft(_)
StripLeft(s) == IF s # <<>> /\ Head(s) = " " THEN StripLeft(Tail(s)) ELSE s
RECURSIVE StripRight(_)
StripRight(s) ==
    IF s # <<>> /\ s[Len(s)] = " " THEN StripRight(SubSeq(s, 1, Len(s) - 1)) ELSE s

\* the value of a sequence of decimal digits
RECURSIVE Decimal(_)
Decimal(ds) ==
    IF ds = <<>> THEN 0
    ELSE 10 * Decimal(SubSeq(ds, 1, Len(ds) - 1)) + DigitValue[ds[Len(ds)]]

\* int(v): a bool is 0 or 1, an int itself, a str its decimal value after
\* stripping blanks and an optional sign; anything else raises ValueError
PyInt(v) ==
    CASE v.kind = "bool" -> [exc |-> "", n |-> IF v.b THEN 1 ELSE 0]
      [] v.kind = "int" -> [exc |-> "", n |-> v.n]
      [] v.kind = "str" ->
           LET t == StripRight(StripLeft(v.s))
               signed == t # <<>> /\ Head(t) \in {"-", "+"}
               ds == IF signed THEN Tail(t) ELSE t
           IN  IF ds = <<>> \/ \E k \in 1..Len(ds) : ds[k] \notin DOMAIN DigitValue
               THEN [exc |-> "ValueError", n |-> 0]
               ELSE [exc |-> "",
                     n |-> IF signed /\ Head(t) = "-" THEN 0 - Decimal(ds)
                           ELSE Decimal(ds)]

NotGiven == [count |-> Absent, enable |-> Absent, params |-> Absent, inputs |-> Absent]

(***************************************************************************)
(* Construction of a Launch actor from the options it is given.            *)
(***************************************************************************)
\* a Launch.__init__ that takes only a positive count for a count
LaunchInitPositiveCount(given) ==
    LET enabled == Get(given.enable)
        count_specified == PyInt(Get(given.count))
    IN  IF count_specified.exc = "ValueError" THEN "InvalidOptions"
        ELSE IF ~(IsTrue(enabled) \/ count_specified.n > 0) THEN "InvalidOptions"
        ELSE ""

\* Launch.__init__, lines 853-864: the exception it raises, "" if none
Launch_init(given) ==
    LET enabled == Get(given.enable)
        count_specified == PyInt(Get(given.count))
    IN  IF count_specified.exc = "ValueError" THEN "InvalidOptions"
        ELSE IF ~(IsTrue(enabled) \/ count_specified.n # 0) THEN "InvalidOptions"
        ELSE ""

\* self.option(name) of an option whose default is {}
OptionOrEmptyDict(given) == IF given.kind = "absent" THEN GivenDict(0) ELSE given

\* _generate_rightscale_params (base.py, lines 92-94): the exception it
\* raises for params, "" if none
CheckIsDict(params) == IF params.kind # "dict" THEN "InvalidOptions" ELSE ""

\* Update.__init__, lines 397-403: the exception it raises, "" if none
Update_init(given) ==
    IF CheckIsDict(OptionOrEmptyDict(given.params)) # ""
    THEN CheckIsDict(OptionOrEmptyDict(given.params))
    ELSE CheckIsDict(OptionOrEmptyDict(given.inputs))

\* Launch(...) or Update(...) is constructed.  Launch._execute later reads
\* int(self.option('count')) and self.option('enable'), Update._execute
\* self.option('params') and self.option('inputs')
Construct ==
    /\ Running /\ pc = "new" /\ op \in {"Launch", "Update"}
    /\ LET exc == IF op = "Launch" THEN Launch_init(opt.given)
                  ELSE Update_init(opt.given)
       IN  IF exc # ""
           THEN /\ result' = Raised(exc, 0)
                /\ UNCHANGED <<pc, opt>>
           ELSE /\ pc' = "ready"
                /\ opt' = IF op = "Launch"
                          THEN [opt EXCEPT
                                  !.count = PyInt(Get(opt.given.count)).n,
                                  !.enable = IsTrue(Get(opt.given.enable))]
                          ELSE [opt EXCEPT
                                  !.params = IsTrue(opt.given.params),
                                  !.inputs = IF IsTrue(opt.given.inputs)
                                             THEN <<Input("A", "text")>>
                                             ELSE <<>>]
                /\ UNCHANGED result
    /\ UNCHANGED <<enc, op, dry, step, found, inst, arrays, tasks, calls, log,
                   sleeps, run, prev>>

(***************************************************************************)
(* Initial states: an actor, its options, and a remote state.              *)
(***************************************************************************)
Ops == {"Clone", "Update", "Terminate", "Destroy", "Launch", "Execute"}

DefaultOpt ==
    [exact |-> TRUE, strict |-> TRUE, strict_source |-> TRUE,
     strict_dest |-> TRUE, count |-> 0, enable |-> FALSE, params |-> FALSE,
     inputs |-> <<>>, script |-> "script", raise_on |-> "notfound",
     allow_mock |-> TRUE, given |-> NotGiven]

InputChoices ==
    {<<>>, <<Input("A", "text")>>, <<Input("B", "text")>>,
     <<Input("A", "cred"), Input("B", "bogus")>>}

\* The options each actor reads (all_options); Launch's pass its __init__
Options(o, d) ==
    CASE o = "Clone" ->
           {[DefaultOpt EXCEPT !.strict_source = a, !.strict_dest = b] :
              a \in BOOLEAN, b \in BOOLEAN}
      [] o = "Update" ->
           {[DefaultOpt EXCEPT !.exact = e, !.params = p, !.inputs = i] :
              e \in BOOLEAN, p \in BOOLEAN, i \in InputChoices}
      [] o \in {"Terminate", "Destroy"} ->
           {[DefaultOpt EXCEPT !.exact = e, !.strict = st] :
              e \in BOOLEAN, st \in BOOLEAN}
      [] o = "Launch" ->
           {x \in {[DefaultOpt EXCEPT
                       !.exact = e, !.enable = en, !.count = c,
                       !.given = [NotGiven EXCEPT
                                    !.count = IF c = 0 THEN Absent ELSE GivenInt(c),
                                    !.enable = GivenBool(en)]] :
                     e \in BOOLEAN, en \in BOOLEAN, c \in {-1, 0, 1}} :
              Launch_init(x.given) = ""}
      [] o = "Execute" ->
           {[DefaultOpt EXCEPT !.exact = e, !.inputs = i, !.script = sc] :
              e \in BOOLEAN, i \in InputChoices,
              sc \in IF d THEN {"script", "cookbook::recipe"} ELSE {"script"}}
      [] o = "_find_server_arrays" ->
           {[DefaultOpt EXCEPT !.exact = e, !.raise_on = ro, !.allow_mock = am] :
              e \in BOOLEAN, ro \in {"notfound", "found", "None", "bogus"},
              am \in BOOLEAN}

\* The non-empty lists of real arrays, in the order the client lists them
RECURSIVE ArrayLists(_)
ArrayLists(n) ==
    IF n = 0 THEN {<<>>}
    ELSE ArrayLists(n - 1) \cup {Append(l, RealArray(n)) : l \in ArrayLists(n - 1)}

\* What find_server_arrays(name, exact) may answer: with exact one array or
\* None; without, a list, and None or an empty list when nothing matches
Answers(exact) ==
    IF exact THEN {None} \cup {One(RealArray(i)) : i \in ArrayIds}
    ELSE {None} \cup {List(l) : l \in ArrayLists(MaxArrays)}

Script == [NoArray EXCEPT !.name = [kind |-> "script", of |-> "", id |-> 0]]

Founds(o, d, x) ==
    IF o = "Clone"
    THEN {[array |-> None, source |-> a, dest |-> b, script |-> None] :
            a \in {None, One(RealArray(1))},
            b \in {None, One(RealArray(MaxArrays))}}
    ELSE {[array |-> a, source |-> None, dest |-> None, script |-> sc] :
            a \in Answers(x.exact),
            sc \in IF o = "Execute" /\ d THEN {None, One(Script)} ELSE {None}}

\* The arrays a lookup can return
Located(f) ==
    {f[n].items[k].id : n \in {"array"}, k \in 1..Len(f["array"].items)}

\* Remote instances: only of arrays the actor can get to see
InstStates(f) ==
    {i \in [ArrayIds -> InstCfgs] :
       \A a \in ArrayIds \ Located(f) : i[a] = [op |-> 0, non |-> 0]}

InitRun ==
    /\ step = 1
    /\ pc = "ready"
    /\ arrays = None
    /\ tasks = <<>>
    /\ calls = <<>>
    /\ log = <<>>
    /\ result = NotRaised("running")
    /\ sleeps = 0
    /\ run = 1
    /\ prev = [log |-> <<>>, calls |-> <<>>]
    /\ enc = NoEncoding

InitOf(ops, modes) ==
    /\ op \in ops
    /\ dry \in modes
    /\ opt \in Options(op, dry)
    /\ found \in Founds(op, dry, opt)
    /\ inst \in InstStates(found)
    /\ InitRun

\* Other actors create or remove arrays before a repeated lookup
ArraysChange ==
    /\ AtStep("find") /\ step > 1
    /\ \E a \in Answers(opt.exact) :
          /\ a # found[Steps[step].name]
          /\ found' = [found EXCEPT ![Steps[step].name] = a]
    /\ UNCHANGED <<enc, op, dry, opt, step, pc, inst, arrays, tasks, calls, log,
                   result, sleeps, run, prev>>

\* The same actor is run a second time, in dry mode, on the same remote state
Rerun ==
    /\ dry /\ run = 1 /\ result.status # "running"
    /\ prev' = [log |-> log, calls |-> calls]
    /\ run' = 2
    /\ step' = 1
    /\ pc' = "ready"
    /\ arrays' = None
    /\ tasks' = <<>>
    /\ calls' = <<>>
    /\ log' = <<>>
    /\ result' = NotRaised("running")
    /\ sleeps' = 0
    /\ UNCHANGED <<enc, op, dry, opt, found, inst>>

(***************************************************************************)
(* The options a Launch actor may be given.                                *)
(***************************************************************************)
\* The characters and strings an option is drawn from
MaxStr == 2
Chars == {"-", "+", " ", ".", "x", "0", "1", "2"}
RECURSIVE Strings(_)
Strings(n) ==
    IF n = 0 THEN {<<>>}
    ELSE Strings(n - 1) \cup {Append(t, c) : t \in Strings(n - 1), c \in Chars}

MaxCount == 2
GivenCounts ==
    {Absent} \cup {GivenInt(n) : n \in (0 - MaxCount)..MaxCount}
             \cup {GivenStr(t) : t \in Strings(MaxStr)}
GivenEnables == {Absent, GivenBool(FALSE), GivenBool(TRUE)}

(***************************************************************************)
(* SpecConstruct: the construction of a Launch actor, for every count and  *)
(* enable it may be given.                                                 *)
(***************************************************************************)
InitConstruct ==
    /\ op = "Launch"
    /\ dry \in BOOLEAN
    /\ \E c \in GivenCounts, e \in GivenEnables :
          opt = [DefaultOpt EXCEPT
                   !.given = [NotGiven EXCEPT !.count = c, !.enable = e]]
    /\ found = [array |-> One(RealArray(1)), source |-> None, dest |-> None,
                script |-> None]
    /\ inst = [a \in ArrayIds |-> [op |-> 0, non |-> 0]]
    /\ step = 1
    /\ pc = "new"
    /\ arrays = None
    /\ tasks = <<>>
    /\ calls = <<>>
    /\ log = <<>>
    /\ result = NotRaised("running")
    /\ sleeps = 0
    /\ run = 1
    /\ prev = [log |-> <<>>, calls |-> <<>>]
    /\ enc = NoEncoding

NextConstruct == Construct

SpecConstruct == InitConstruct /\ [][NextConstruct]_vars

(***************************************************************************)
(* SpecLaunchCount: Launch of one array without a count, for every         *)
(* min_count of the array and every number of operational instances.       *)
(***************************************************************************)
MaxMinCount == 4
MaxCurrent == 6

InitLaunchCount ==
    /\ op = "Launch"
    /\ dry \in BOOLEAN
    /\ opt = [DefaultOpt EXCEPT
                !.given = [NotGiven EXCEPT !.enable = GivenBool(TRUE)]]
    /\ \E m \in 0..MaxMinCount :
          found \in {[array |-> a, source |-> None, dest |-> None, script |-> None] :
                       a \in {None, One([RealArray(1) EXCEPT !.min_count = m])}}
    /\ \E c \in 0..MaxCurrent :
          inst = [a \in ArrayIds |-> [op |-> IF a = 1 THEN c ELSE 0, non |-> 0]]
    /\ step = 1
    /\ pc = "new"
    /\ arrays = None
    /\ tasks = <<>>
    /\ calls = <<>>
    /\ log = <<>>
    /\ result = NotRaised("running")
    /\ sleeps = 0
    /\ run = 1
    /\ prev = [log |-> <<>>, calls |-> <<>>]
    /\ enc = NoEncoding

NextLaunchCount ==
    \/ Construct
    \/ StartFind
    \/ FindReturn
    \/ StartApply
    \/ Join
    \/ \E i \in 1..MaxArrays : ClientReturn(i)
    \/ \E i \in 1..MaxArrays : InstancesReturn(i)
    \/ \E i \in 1..MaxArrays : SleepOver(i)
    \/ Finish

SpecLaunchCount == InitLaunchCount /\ [][NextLaunchCount]_vars

(***************************************************************************)
(* SpecExecute: Execute, in dry or real mode.                              *)
(***************************************************************************)
InitExecute == InitOf({"Execute"}, BOOLEAN)

NextExecute ==
    \/ CheckScript
    \/ CheckScriptReturn
    \/ CheckInputs
    \/ CallFails
    \/ StartFind
    \/ FindReturn
    \/ FindFails
    \/ StartApply
    \/ Join
    \/ \E i \in 1..MaxArrays : ClientFails(i)
    \/ \E i \in 1..MaxArrays : InstancesReturn(i)
    \/ \E i \in 1..MaxArrays : RunReturn(i)
    \/ \E i \in 1..MaxArrays : TaskEnds(i)
    \/ \E i \in 1..MaxArrays : WaitFails(i)
    \/ Finish

SpecExecute == InitExecute /\ [][NextExecute]_vars

(***************************************************************************)
(* SpecConfig: Launch and Update from their construction on, and Execute,  *)
(* with well-formed and with malformed options, in dry or real mode.       *)
(***************************************************************************)
ConfigCounts ==
    {Absent, GivenInt(0), GivenInt(1), GivenStr(<<"1">>), GivenStr(<<"x">>)}
ConfigDicts == {Absent, GivenDict(0), GivenDict(1), GivenStr(<<"x">>)}

ConfigOptions(o) ==
    IF o = "Launch"
    THEN {[DefaultOpt EXCEPT !.given = [NotGiven EXCEPT !.count = c, !.enable = e]] :
            c \in ConfigCounts, e \in GivenEnables}
    ELSE {[DefaultOpt EXCEPT !.given = [NotGiven EXCEPT !.params = x, !.inputs = y]] :
            x \in ConfigDicts, y \in ConfigDicts}

InitConfig ==
    \/ InitOf({"Execute"}, BOOLEAN)
    \/ /\ op \in {"Launch", "Update"}
       /\ dry \in BOOLEAN
       /\ opt \in ConfigOptions(op)
       /\ found \in {[array |-> a, source |-> None, dest |-> None, script |-> None] :
                       a \in {None, One(RealArray(1))}}
       /\ inst = [a \in ArrayIds |-> [op |-> 0, non |-> 0]]
       /\ step = 1
       /\ pc = "new"
       /\ arrays = None
       /\ tasks = <<>>
       /\ calls = <<>>
       /\ log = <<>>
       /\ result = NotRaised("running")
       /\ sleeps = 0
       /\ run = 1
       /\ prev = [log |-> <<>>, calls |-> <<>>]
       /\ enc = NoEncoding

NextConfig ==
    \/ Construct
    \/ CheckScript
    \/ CheckScriptReturn
    \/ CheckInputs
    \/ CallFails
    \/ DryNotes
    \/ StartFind
    \/ FindReturn
    \/ FindFails
    \/ StartApply
    \/ Join
    \/ \E i \in 1..MaxArrays : ClientReturn(i)
    \/ \E i \in 1..MaxArrays : ClientFails(i)
    \/ \E i \in 1..MaxArrays : InstancesReturn(i)
    \/ \E i \in 1..MaxArrays : InputsReturn(i)
    \/ \E i \in 1..MaxArrays : RunReturn(i)
    \/ \E i \in 1..MaxArrays : TaskEnds(i)
    \/ \E i \in 1..MaxArrays : WaitFails(i)
    \/ \E i \in 1..MaxArrays : SleepOver(i)
    \/ Finish

SpecConfig == InitConfig /\ [][NextConfig]_vars

(***************************************************************************)
(* SpecUpdate: Update, in dry or real mode.                                *)
(***************************************************************************)
InitUpdate == InitOf({"Update"}, BOOLEAN)

NextUpdate ==
    \/ StartFind
    \/ FindReturn
    \/ FindFails
    \/ DryNotes
    \/ StartApply
    \/ Join
    \/ \E i \in 1..MaxArrays : ClientReturn(i)
    \/ \E i \in 1..MaxArrays : ClientFails(i)
    \/ \E i \in 1..MaxArrays : InputsReturn(i)
    \/ Finish

SpecUpdate == InitUpdate /\ [][NextUpdate]_vars

(***************************************************************************)
(* SpecClone: Clone, in dry or real mode.                                  *)
(***************************************************************************)
InitClone == InitOf({"Clone"}, BOOLEAN)

NextClone ==
    \/ StartFind
    \/ FindReturn
    \/ FindFails
    \/ CloneArray
    \/ CloneReturn
    \/ Rename
    \/ RenameReturn
    \/ CallFails
    \/ Finish

SpecClone == InitClone /\ [][NextClone]_vars

(***************************************************************************)
(* SpecEncode: one call of _generate_rightscale_params, for every prefix   *)
(* and every value of up to MaxNodes scalars, dicts and lists.             *)
(***************************************************************************)
MaxNodes == 5
Keys == {<<"a">>, <<"b">>}
Scalars == {1, 2}
Prefixes == {<<>>, <<"p">>}

\* the values made of n scalars, dicts and lists; a dict or a list holds up
\* to two values
RECURSIVE ValuesOfSize(_)
ValuesOfSize(n) ==
    IF n = 1
    THEN {Scalar(v) : v \in Scalars} \cup {Dict(<<>>), PyList(<<>>)}
    ELSE LET one == ValuesOfSize(n - 1)
             two == UNION {ValuesOfSize(i) \X ValuesOfSize(n - 1 - i) :
                             i \in 1..(n - 2)}
         IN  {Dict(<<KV(k, x)>>) : k \in Keys, x \in one}
             \cup {Dict(<<KV(kk[1], xy[1]), KV(kk[2], xy[2])>>) :
                     kk \in {q \in Keys \X Keys : q[1] # q[2]}, xy \in two}
             \cup {PyList(<<x>>) : x \in one}
             \cup {PyList(xy) : xy \in two}

ValuesUpTo(n) == UNION {ValuesOfSize(k) : k \in 1..n}

InitEncode ==
    /\ op = "Update"
    /\ dry = FALSE
    /\ opt = [DefaultOpt EXCEPT !.params = TRUE]
    /\ found = [array |-> None, source |-> None, dest |-> None, script |-> None]
    /\ inst = [a \in ArrayIds |-> [op |-> 0, non |-> 0]]
    /\ step = 1
    /\ pc = "new"
    /\ arrays = None
    /\ tasks = <<>>
    /\ calls = <<>>
    /\ log = <<>>
    /\ result = NotRaised("running")
    /\ sleeps = 0
    /\ run = 1
    /\ prev = [log |-> <<>>, calls |-> <<>>]
    /\ \E prefix \in Prefixes, params \in ValuesUpTo(MaxNodes) :
          enc = Encoding(prefix, params, "called", Flat("", <<>>))

NextEncode == Generate

SpecEncode == InitEncode /\ [][NextEncode]_vars

(***************************************************************************)
(* SpecPoll: Terminate, Destroy and Launch of one array in real mode, with *)
(* the IOLoop running every callback that is ready: the actor's own steps  *)
(* and the wake-up of a sleeping poller happen, and every client call is   *)
(* answered.                                                               *)
(***************************************************************************)
InitPoll ==
    /\ InitOf({"Terminate", "Destroy", "Launch"}, {FALSE})
    /\ opt.strict /\ ~opt.exact
    /\ Len(found["array"].items) = 1
    /\ \A a \in ArrayIds : inst[a].non = 0

NextPoll ==
    \/ StartFind
    \/ FindReturn
    \/ FindFails
    \/ StartApply
    \/ Join
    \/ \E i \in 1..MaxArrays : ClientReturn(i)
    \/ \E i \in 1..MaxArrays : ClientFails(i)
    \/ \E i \in 1..MaxArrays : InstancesReturn(i)
    \/ \E i \in 1..MaxArrays : TaskEnds(i)
    \/ \E i \in 1..MaxArrays : SleepOver(i)
    \/ InstancesChange
    \/ Finish

FairPoll ==
    /\ WF_vars(StartFind)
    /\ WF_vars(FindReturn \/ FindFails)
    /\ WF_vars(StartApply)
    /\ WF_vars(Join)
    /\ WF_vars(Finish)
    /\ \A i \in 1..MaxArrays :
          /\ WF_vars(SleepOver(i))
          /\ WF_vars(ClientReturn(i) \/ InstancesReturn(i) \/ TaskEnds(i)
                     \/ ClientFails(i))

SpecPoll == InitPoll /\ [][NextPoll]_vars /\ FairPoll

(***************************************************************************)
(* Spec: any actor, in dry or real mode.                                   *)
(***************************************************************************)
Init == InitOf(Ops, BOOLEAN)

Next ==
    \/ StartFind
    \/ FindReturn
    \/ FindFails
    \/ ArraysChange
    \/ StartApply
    \/ Join
    \/ \E i \in 1..MaxArrays : ClientReturn(i)
    \/ \E i \in 1..MaxArrays : ClientFails(i)
    \/ \E i \in 1..MaxArrays : InstancesReturn(i)
    \/ \E i \in 1..MaxArrays : InputsReturn(i)
    \/ \E i \in 1..MaxArrays : RunReturn(i)
    \/ \E i \in 1..MaxArrays : TaskEnds(i)
    \/ \E i \in 1..MaxArrays : WaitFails(i)
    \/ \E i \in 1..MaxArrays : SleepOver(i)
    \/ InstancesChange
    \/ CloneArray
    \/ CloneReturn
    \/ Rename
    \/ RenameReturn
    \/ CallFails
    \/ DryNotes
    \/ CheckScript
    \/ CheckScriptReturn
    \/ CheckInputs
    \/ Finish

Spec == Init /\ [][Next]_vars

(***************************************************************************)
(* SpecLocate: one call of _find_server_arrays, for every raise_on,        *)
(* allow_mock, exact, mode and answer of the client.                       *)
(***************************************************************************)
InitLocate == InitOf({"_find_server_arrays"}, BOOLEAN)

NextLocate ==
    \/ StartFind
    \/ FindReturn
    \/ Finish

SpecLocate == InitLocate /\ [][NextLocate]_vars

(***************************************************************************)
(* SpecDry: any actor in dry mode.                                         *)
(***************************************************************************)
InitDry == InitOf(Ops, {TRUE})

NextDry ==
    \/ StartFind
    \/ FindReturn
    \/ FindFails
    \/ StartApply
    \/ Join
    \/ \E i \in 1..MaxArrays : ClientFails(i)
    \/ \E i \in 1..MaxArrays : InstancesReturn(i)
    \/ \E i \in 1..MaxArrays : InputsReturn(i)
    \/ CloneArray
    \/ Rename
    \/ RenameReturn
    \/ CallFails
    \/ DryNotes
    \/ CheckScript
    \/ CheckScriptReturn
    \/ CheckInputs
    \/ Finish

SpecDry == InitDry /\ [][NextDry]_vars

(***************************************************************************)
(* SpecDryTwice: any actor run twice in dry mode against one remote state  *)
(* whose client answers every call.                                        *)
(***************************************************************************)
NextDryTwice ==
    \/ StartFind
    \/ FindReturn
    \/ StartApply
    \/ Join
    \/ \E i \in 1..MaxArrays : InstancesReturn(i)
    \/ \E i \in 1..MaxArrays : InputsReturn(i)
    \/ CloneArray
    \/ Rename
    \/ RenameReturn
    \/ DryNotes
    \/ CheckScript
    \/ CheckScriptReturn
    \/ CheckInputs
    \/ Finish
    \/ Rerun

SpecDryTwice == InitDry /\ [][NextDryTwice]_vars

(***************************************************************************)
(* SpecDestroy: Destroy (and with it the Terminate workflow it inherits),  *)
(* in dry or real mode, while other actors create and remove arrays.       *)
(***************************************************************************)
InitDestroy == InitOf({"Destroy"}, BOOLEAN)

NextDestroy ==
    \/ StartFind
    \/ FindReturn
    \/ FindFails
    \/ ArraysChange
    \/ StartApply
    \/ Join
    \/ \E i \in 1..MaxArrays : ClientReturn(i)
    \/ \E i \in 1..MaxArrays : ClientFails(i)
    \/ \E i \in 1..MaxArrays : InstancesReturn(i)
    \/ \E i \in 1..MaxArrays : TaskEnds(i)
    \/ \E i \in 1..MaxArrays : SleepOver(i)
    \/ InstancesChange
    \/ Finish

SpecDestroy == InitDestroy /\ [][NextDestroy]_vars


(***************************************************************************)
(* SpecStages: Terminate and Launch, the actors with three fan-out stages, *)
(* in dry or real mode.                                                    *)
(***************************************************************************)
InitStages == InitOf({"Terminate", "Launch"}, BOOLEAN)

NextStages ==
    \/ StartFind
    \/ FindReturn
    \/ FindFails
    \/ StartApply
    \/ Join
    \/ \E i \in 1..MaxArrays : ClientReturn(i)
    \/ \E i \in 1..MaxArrays : ClientFails(i)
    \/ \E i \in 1..MaxArrays : InstancesReturn(i)
    \/ \E i \in 1..MaxArrays : TaskEnds(i)
    \/ \E i \in 1..MaxArrays : SleepOver(i)
    \/ InstancesChange
    \/ Finish

SpecStages == InitStages /\ [][NextStages]_vars

(***************************************************************************)
(* Properties of _find_server_arrays (SpecLocate).                         *)
(***************************************************************************)
\* the lookup has returned to its caller, or raised
Returned == step = 2
NoMatch == ~Truthy(found["array"])

\* C3 as stated: with raise_on = 'notfound', for every allow_mock and mode,
\* a lookup that finds no match fails with ArrayNotFound.
C3_NotFoundAlwaysRaises ==
    (opt.raise_on = "notfound" /\ NoMatch /\ (Returned \/ ~Running))
        => result = Raised("ArrayNotFound", 0)

\* C3 amended: with raise_on = 'notfound' a lookup that finds no match fails
\* with ArrayNotFound, except in dry mode with allow_mock, where it returns
\* one fabricated array instead.
C3_NotFoundRaisesUnlessMocked ==
    (opt.raise_on = "notfound" /\ NoMatch /\ (Returned \/ ~Running))
        => IF dry /\ opt.allow_mock
           THEN /\ result.status # "raised"
                /\ ~arrays.list /\ Len(arrays.items) = 1
                /\ arrays.items[1].fake
           ELSE result = Raised("ArrayNotFound", 0)

C3_Witness ==
    /\ op = "_find_server_arrays" /\ opt.raise_on = "notfound" /\ NoMatch
    /\ opt.allow_mock /\ ~dry
    /\ result = Raised("ArrayNotFound", 0)

\* C4: with raise_on = 'found', for every allow_mock and mode, a lookup that
\* finds one real match or more fails with ArrayAlreadyExists and hands no
\* array to its caller.
C4_FoundRaises ==
    (opt.raise_on = "found" /\ ~NoMatch /\ (Returned \/ ~Running))
        => /\ result = Raised("ArrayAlreadyExists", 0)
           /\ ~Returned
           /\ arrays = None

C4_Witness ==
    /\ op = "_find_server_arrays" /\ opt.raise_on = "found"
    /\ found["array"].list /\ Len(found["array"].items) > 1
    /\ opt.allow_mock /\ dry
    /\ result = Raised("ArrayAlreadyExists", 0)

\* C5: with raise_on = None the lookup never raises; when nothing matches,
\* allow_mock is set and the actor is in dry mode it returns one fabricated
\* array, with 'fake' in its soul and min_count 4; in every other case it
\* returns the client's answer itself.
C5_NoneReturnsMockOrAnswer ==
    (opt.raise_on = "None" /\ (Returned \/ ~Running))
        => /\ result.status # "raised"
           /\ IF NoMatch /\ opt.allow_mock /\ dry
              THEN /\ ~arrays.list /\ Len(arrays.items) = 1
                   /\ arrays.items[1].fake
                   /\ arrays.items[1].min_count = 4
              ELSE /\ arrays = found["array"]
                   /\ \A k \in 1..Len(arrays.items) : ~arrays.items[k].fake

C5_Witness ==
    /\ op = "_find_server_arrays" /\ opt.raise_on = "None" /\ Returned
    /\ found["array"] = List(<<>>) /\ opt.allow_mock /\ dry
    /\ arrays.items[1].fake


(***************************************************************************)
(* Properties of dry runs (SpecDry, SpecDryTwice).                         *)
(***************************************************************************)
MutatingCalls ==
    {"clone_server_array", "update_server_array", "update_server_array_inputs",
     "terminate_server_array_instances", "launch_server_array",
     "destroy_server_array", "run_executable_on_instances"}

\* C1 as stated: in dry mode no actor ever issues a mutating client call.
C1_NoMutatingCallInDry ==
    dry => \A k \in 1..Len(calls) : calls[k].fn \notin MutatingCalls

\* C1 amended: in dry mode no actor issues a mutating client call on an
\* array of the remote system; the only mutating call issued is Clone's
\* update_server_array (the rename), and its target is the fabricated clone.
C1_NoMutatingCallOnRealArrayInDry ==
    dry => \A k \in 1..Len(calls) :
              calls[k].fn \in MutatingCalls
                  => /\ op = "Clone"
                     /\ calls[k].fn = "update_server_array"
                     /\ calls[k].by = "_execute"
                     /\ calls[k].arr = MockClone

C1_Witness ==
    /\ dry /\ op = "Clone" /\ result.status = "ok"
    /\ \E k \in 1..Len(calls) : calls[k].fn = "update_server_array"

\* C9: in dry mode the pollers _wait_until_empty and _wait_until_healthy
\* return at once: they issue no get_server_array_current_instances (nor any
\* other) call, and nothing sleeps.
C9_DryPollersReturnAtOnce ==
    dry => /\ sleeps = 0
           /\ \A k \in 1..Len(calls) :
                 calls[k].by \notin {"_wait_until_empty", "_wait_until_healthy"}
           /\ (pc = "joining" /\ Steps[step].fn \in {"_wait_until_empty",
                                                     "_wait_until_healthy"})
                  => AllFinished(tasks)

C9_Witness ==
    /\ dry /\ op = "Terminate" /\ pc = "joining"
    /\ Steps[step].fn = "_wait_until_empty"
    /\ Len(tasks) = 2 /\ ~tasks[1].arr.fake /\ inst[tasks[1].arr.id].op > 0

\* What a client call shows of the array it is made on: not its path
CallView(c) ==
    [fn |-> c.fn, by |-> c.by, arg |-> c.arg, name |-> c.arr.name,
     mock |-> c.arr.mock]
CallViews(cs) == [k \in 1..Len(cs) |-> CallView(cs[k])]

Count(m, ms) == Cardinality({k \in 1..Len(ms) : ms[k] = m})
Range(ms) == {ms[k] : k \in 1..Len(ms)}
About(name, ms) == SelectSeq(ms, LAMBDA m : m.arr = name)

CallsBy(fn, h) == {k \in 1..Len(calls) : calls[k].by = fn /\ calls[k].arr = h}
InApply == Running /\ pc = "joining"

\* C6: _apply runs the function once on every array it is given (a single
\* array counts as a list of one), and whichever of these runs fail, it
\* neither returns nor raises before every one of them has ended.
C6_ApplyRunsAllToTheEnd ==
    /\ [](InApply =>
            /\ Len(tasks) = Len(arrays.items)
            /\ \A i \in 1..Len(tasks) : tasks[i].arr = arrays.items[i]
            /\ (~dry /\ Steps[step].fn = "_disable_array")
                  => \A i \in 1..Len(tasks) :
                        Cardinality(CallsBy("_disable_array", tasks[i].arr)) = 1)
    /\ [][(InApply /\ (pc' # "joining" \/ result' # result))
             => AllFinished(tasks)]_vars

C6_Witness ==
    /\ InApply /\ Len(tasks) = 2
    /\ tasks[1].pc = "failed" /\ ~Finished(tasks[2])

\* C7 as stated: when several runs inside one _apply fail, the failure
\* _apply raises is the one that happened first.
C7_FirstFailureByCompletion ==
    (result.status = "raised" /\ result.by # 0)
        => \A j \in 1..Len(tasks) :
              tasks[j].pc = "failed" => tasks[result.by].fin <= tasks[j].fin

\* C7 amended: when several runs inside one _apply fail, the failure _apply
\* raises is the one of the failed run with the lowest index in the list of
\* arrays, whichever of them failed first.
C7_FirstFailureByIndex ==
    (result.status = "raised" /\ result.by # 0)
        => /\ tasks[result.by].pc = "failed"
           /\ result.exc = tasks[result.by].exc
           /\ \A j \in 1..Len(tasks) :
                 tasks[j].pc = "failed" => result.by <= j

C7_Witness ==
    /\ result.status = "raised" /\ result.by = 1
    /\ Len(tasks) = 2 /\ tasks[2].pc = "failed"
    /\ tasks[2].fin < tasks[1].fin

\* the position in _execute of the stage a function belongs to
StageOf(fn) == CHOOSE k \in 1..Len(Steps) : Steps[k].fn = fn
StageFns == {Steps[k].fn : k \in 1..Len(Steps)} \ {""}

\* C8: in Terminate and in Launch no array's step of a stage starts, and so
\* none of its client calls is made, before every array's step of the stage
\* before it has ended, however the steps of the arrays interleave.
C8_StageBarriers ==
    /\ [](op \in {"Terminate", "Launch"} =>
            \A k \in 1..Len(calls) :
               calls[k].by \in StageFns => StageOf(calls[k].by) <= step)
    /\ [][(op \in {"Terminate", "Launch"} /\ pc = "ready" /\ pc' = "joining")
             => AllFinished(tasks)]_vars
    /\ [][(op \in {"Terminate", "Launch"} /\ step' # step)
             => AllFinished(tasks)]_vars

C8_Witness ==
    /\ op = "Launch" /\ ~dry /\ InApply
    /\ Steps[step].fn = "_launch_instances"
    /\ Len(tasks) = 2 /\ Finished(tasks[2]) /\ ~Finished(tasks[1])

(***************************************************************************)
(* Properties of Destroy (SpecDestroy).                                    *)
(***************************************************************************)
Destroys == {k \in 1..Len(calls) : calls[k].fn = "destroy_server_array"}
Finds == {k \in 1..Len(calls) : calls[k].fn = "find_server_arrays"}

\* C10: Destroy calls destroy_server_array only once the whole Terminate
\* workflow is over (every array it disabled was asked to terminate its
\* instances and was polled) and the arrays have been looked up a second
\* time; it then calls it exactly once for each array of that second lookup.
C10_DestroyAfterTerminateAndSecondLookup ==
    /\ \A k \in Destroys :
          /\ ~dry
          /\ step >= StageOf("_destroy_array")
          /\ Cardinality({j \in Finds : j < k}) = 2
          /\ \A j \in 1..Len(calls) : j > k => j \in Destroys
          /\ \A j \in 1..Len(calls) :
                calls[j].by = "_disable_array"
                    => /\ CallsBy("_terminate_all_instances", calls[j].arr) # {}
                       /\ CallsBy("_wait_until_empty", calls[j].arr) # {}
    /\ (~dry /\ InApply /\ Steps[step].fn = "_destroy_array")
          => /\ Cardinality(Destroys) = Len(arrays.items)
             /\ \A i \in 1..Len(arrays.items) :
                   Cardinality(Destroys \cap
                               CallsBy("_destroy_array", arrays.items[i])) = 1

C10_Witness ==
    /\ op = "Destroy" /\ ~dry /\ result.status = "ok"
    /\ Cardinality(Destroys) = 2
    /\ Cardinality({k \in 1..Len(calls) : calls[k].by = "_disable_array"}) = 1


(***************************************************************************)
(* Properties of Launch's construction (SpecConstruct).                    *)
(***************************************************************************)
Constructed == pc = "ready" \/ ~Running
EnableGiven == opt.given.enable = GivenBool(TRUE)
CountValue == PyInt(Get(opt.given.count))

\* C11 as stated: constructing a Launch succeeds only if enable is true or
\* count is a positive integer; otherwise it fails with InvalidOptions.
C11_LaunchNeedsEnableOrPositiveCount ==
    (Constructed /\ ~(EnableGiven \/ (CountValue.exc = "" /\ CountValue.n > 0)))
        => result = Raised("InvalidOptions", 0)

\* C11 amended: constructing a Launch fails with InvalidOptions when count
\* is not an integer (whatever enable is), and when enable is not true and
\* count is absent or zero; it succeeds in every other case, so with enable
\* true or with any count other than zero, a negative count included.
C11_LaunchNeedsEnableOrNonZeroCount ==
    Constructed =>
        IF CountValue.exc = "" /\ (EnableGiven \/ CountValue.n # 0)
        THEN result.status # "raised"
        ELSE result = Raised("InvalidOptions", 0)

C11_Witness ==
    /\ pc = "ready" /\ result.status = "running"
    /\ ~EnableGiven /\ opt.given.count.kind = "str" /\ opt.count < 0


(***************************************************************************)
(* Properties of Launch._launch_instances (SpecLaunchCount).               *)
(***************************************************************************)
Launches == {k \in 1..Len(calls) : calls[k].fn = "launch_server_array"}
\* the operational instances the remote system holds for an array
Operational(h) == IF h.id \in ArrayIds THEN inst[h.id].op ELSE 0
\* the launch stage of _execute is over
Launched == Running /\ step > StageOf("_launch_instances")

\* C12: without an explicit count Launch asks for min_count minus the
\* operational instances the array has, and for none when the array has
\* min_count of them or more: then no launch_server_array call is issued.
\* (In dry mode the number is the one the log announces.)
C12_LaunchesUpToMinCount ==
    /\ \A k \in Launches :
          /\ calls[k].arg.n = calls[k].arr.min_count - Operational(calls[k].arr)
          /\ calls[k].arg.n > 0
    /\ \A k \in 1..Len(log) :
          log[k].msg = "Would have launched instances of array"
              => LET h == arrays.items[1]
                 IN  /\ log[k].n >= 0
                     /\ log[k].n >= h.min_count - Operational(h)
                     /\ log[k].n \in {0, h.min_count - Operational(h)}
    /\ (Launched /\ ~dry)
          => LET h == arrays.items[1]
             IN  IF h.min_count > Operational(h)
                 THEN Cardinality(Launches) = 1
                 ELSE Launches = {}

C12_Witness ==
    \E k \in Launches :
        /\ calls[k].arr.min_count = 4 /\ Operational(calls[k].arr) = 1
        /\ calls[k].arg.n = 3


(***************************************************************************)
(* Properties of the launch step with a count below one (SpecStages).      *)
(***************************************************************************)
InLaunchStep ==
    op = "Launch" /\ InApply /\ Steps[step].fn = "_launch_instances"

\* C13 as stated: in a real Launch, when the count of an array is 0 or less,
\* be it computed from min_count or given, the launch step of that array
\* issues no launch_server_array call and ends without raising (only a
\* client call that fails makes it fail).
C13_LaunchSkippedForCountBelowOne ==
    (InLaunchStep /\ ~dry) =>
        \A i \in 1..Len(tasks) :
            LET h == tasks[i].arr
                given == opt.count < 0
                computed == /\ opt.count = 0 /\ tasks[i].pc # "count"
                            /\ h.min_count <= Operational(h)
            IN  (given \/ computed)
                    => /\ Launches \cap CallsBy("_launch_instances", h) = {}
                       /\ \/ tasks[i].pc = "done"
                          \/ /\ tasks[i].pc = "failed"
                             /\ tasks[i].exc \in Faults("_launch_instances")


(***************************************************************************)
(* Properties of Execute (SpecExecute).                                    *)
(***************************************************************************)
InExecuteStep == op = "Execute" /\ InApply /\ Steps[step].fn = "_execute_array"
AwaitingTasks(t) == t.pc \in {"wait_tasks", "wait_tasks_raised"}

\* C14: in a real Execute an array whose tasks did not all succeed fails with
\* TaskExecutionFailed, and it does so only when every task submitted for
\* that array has been awaited to its end: the first task that fails does
\* not end the wait.
C14_AllTasksAwaitedBeforeFailure ==
    /\ []((InExecuteStep /\ ~dry) =>
            \A i \in 1..Len(tasks) :
               LET t == tasks[i]
               IN  /\ t.exc = "TaskExecutionFailed"
                         => /\ t.pc = "failed"
                            /\ t.loc.sample = 0 /\ t.loc.m > 0
                            /\ Cardinality(CallsBy("_wait_for_all_tasks", t.arr))
                                  = t.loc.n
                   /\ (Finished(t) /\ t.loc.m > 0 /\ t.exc # "HTTPError 500")
                         => t.exc = "TaskExecutionFailed"
                   /\ AwaitingTasks(t) => t.loc.sample >= 1)
    /\ [][\A i \in 1..Len(tasks) :
             (InExecuteStep /\ AwaitingTasks(tasks[i]) /\ tasks[i].loc.sample > 1)
                 => ~Finished(tasks'[i])]_vars
    /\ []((op = "Execute" /\ result.status = "raised" /\ result.by # 0
           /\ result.exc = "TaskExecutionFailed")
             => /\ AllFinished(tasks)
                /\ tasks[result.by].exc = "TaskExecutionFailed")

C14_Witness ==
    /\ op = "Execute" /\ ~dry
    /\ result = Raised("TaskExecutionFailed", 1)
    /\ tasks[1].loc.n = 2 /\ tasks[1].loc.m = 1

Runs == {k \in 1..Len(calls) : calls[k].fn = "run_executable_on_instances"}

\* C15: the instances Execute hands to run_executable_on_instances are
\* instances of the array in state 'operational', all of them and no other:
\* an instance that is booting is never among them.
C15_RunsOnOperationalOnly ==
    \A k \in Runs :
        LET on == calls[k].arg.insts
        IN  /\ \A j \in 1..Len(on) :
                  /\ on[j].state = "operational"
                  /\ on[j].arr = calls[k].arr.id
            /\ Len(on) = Operational(calls[k].arr)

C15_Witness ==
    \E k \in Runs :
        /\ Len(calls[k].arg.insts) = 1
        /\ inst[calls[k].arr.id].non = 1


(***************************************************************************)
(* Properties of configuration errors (SpecConfig).                        *)
(***************************************************************************)
\* InvalidOptions raised for the shape of an option: by Launch.__init__ or
\* Update.__init__, or by Execute._check_inputs for an input's scheme
ConfigurationError ==
    /\ result = Raised("InvalidOptions", 0)
    /\ \/ pc = "new"
       \/ op = "Execute" /\ Steps[step].kind = "check_inputs"

\* C16 as stated: an operation that fails with a configuration error has
\* issued no client call before it failed.
C16_NoCallBeforeConfigurationError ==
    ConfigurationError => calls = <<>>

\* C16 amended: Launch and Update fail with a configuration error at their
\* construction, with no client call issued.  Execute checks the schemes of
\* its inputs only in dry mode and only once the script was looked up: when
\* it fails for a scheme it has issued exactly one client call, the lookup
\* of the script, and none about an array.  In real mode Execute does not
\* check the schemes.
C16_NoCallBeforeConfigurationErrorButScriptLookup ==
    /\ ConfigurationError =>
          IF op = "Execute"
          THEN /\ dry
               /\ Len(calls) = 1
               /\ calls[1].fn \in {"find_right_script", "find_cookbook"}
          ELSE calls = <<>>
    /\ (op = "Execute" /\ ~dry) => result.exc # "InvalidOptions"

C16_Witness ==
    /\ op = "Execute" /\ dry /\ ConfigurationError
    /\ calls # <<>>


(***************************************************************************)
(* Properties of Update's lookup (SpecUpdate).                             *)
(***************************************************************************)
\* the first lookup of _execute has returned or raised
LookedUp == step > 1 \/ (step = 1 /\ result.status = "raised")

\* C17 as stated: in dry and in real mode Update never fails with
\* ArrayNotFound when the array it names does not exist.
C17_UpdateNeverArrayNotFound ==
    op = "Update" => result.exc # "ArrayNotFound"

\* C17 amended: Update looks its array up with the defaults of
\* _find_server_arrays (raise_on 'notfound', mock allowed).  In dry mode an
\* absent array is replaced by a fabricated one and Update never fails with
\* ArrayNotFound; in real mode an absent array makes Update fail with
\* ArrayNotFound, before any call that changes an array.
C17_UpdateArrayNotFoundInRealModeOnly ==
    op = "Update" =>
        /\ result.exc = "ArrayNotFound"
              => /\ ~dry /\ NoMatch
                 /\ \A k \in 1..Len(calls) : calls[k].fn = "find_server_arrays"
        /\ (~dry /\ NoMatch /\ LookedUp /\ result.exc # "HTTPError 500")
              => result = Raised("ArrayNotFound", 0)
        /\ (dry /\ NoMatch /\ step > 1)
              => /\ Len(arrays.items) = 1 /\ arrays.items[1].fake
                 /\ result.exc # "ArrayNotFound"

C17_Witness ==
    /\ op = "Update" /\ ~dry /\ NoMatch /\ ~opt.exact
    /\ result = Raised("ArrayNotFound", 0)


(***************************************************************************)
(* Properties of Clone (SpecClone).                                        *)
(***************************************************************************)
Clones == {k \in 1..Len(calls) : calls[k].fn = "clone_server_array"}
Renames == {k \in 1..Len(calls) : calls[k].fn = "update_server_array"}
RenameParams == Arg("server_array[name]", "dest", 0)

\* C18: a dry Clone never calls clone_server_array; it fabricates the cloned
\* array and renames it as a real run renames the clone: one
\* update_server_array call, on the fabricated array in a dry run and on the
\* array clone_server_array returned in a real one, with the same encoded
\* name parameter.
C18_DryCloneRenamesFabricatedClone ==
    op = "Clone" =>
        /\ dry => Clones = {}
        /\ \A k \in Renames :
              /\ calls[k].arg = RenameParams
              /\ calls[k].by = "_execute"
              /\ IF dry THEN calls[k].arr = MockClone
                 ELSE /\ Cardinality(Clones) = 1
                      /\ \A c \in Clones :
                            c < k /\ calls[k].arr = CloneOf(calls[c].arr)
        /\ result.status = "ok" => Cardinality(Renames) = 1

C18_Witness ==
    /\ op = "Clone" /\ dry /\ result.status = "ok"
    /\ Renames # {} /\ Clones = {}
    /\ ~opt.strict_source /\ ~Truthy(found["source"])


(***************************************************************************)
(* Properties of Terminate (SpecStages).                                   *)
(***************************************************************************)
\* the disable stage of a real Terminate is running and update_server_array
\* has failed for one of the arrays
DisableFailed ==
    /\ op = "Terminate" /\ ~dry /\ pc = "joining"
    /\ Steps[step].fn = "_disable_array"
    /\ \E i \in 1..Len(tasks) : tasks[i].pc = "failed"
AfterDisable ==
    {k \in 1..Len(calls) :
        calls[k].by \in {"_terminate_all_instances", "_wait_until_empty"}}

\* C19 as stated: a failure of update_server_array(state=disabled) does not
\* make Terminate fail, and Terminate goes on to the terminate-all stage.
C19_DisableFailureIgnored ==
    /\ [](DisableFailed => result.status # "raised")
    /\ [][(DisableFailed /\ (step' # step \/ result' # result))
             => (step' = step + 1 /\ result' = result)]_vars

\* C19 amended: only the value update_server_array returns is ignored. When
\* the call fails for an array, Terminate fails with that error once every
\* array's disable step has ended, and no terminate-all request and no poll
\* is made.
C19_DisableFailureFailsTerminate ==
    /\ [][(DisableFailed /\ (step' # step \/ result' # result \/ pc' # pc))
             => /\ AllFinished(tasks)
                /\ step' = step /\ result'.status = "raised"
                /\ result'.by # 0 /\ tasks[result'.by].pc = "failed"
                /\ result'.exc = tasks[result'.by].exc]_vars
    /\ []((DisableFailed /\ result.status = "raised") => AfterDisable = {})

C19_Witness ==
    /\ DisableFailed /\ result.status = "raised"
    /\ Len(tasks) = 2 /\ tasks[1].pc = "done" /\ tasks[2].pc = "failed"
    /\ Cardinality(CallsBy("_disable_array", tasks[2].arr)) = 1


\* C20: with strict = false a Terminate whose lookup finds no array does not
\* fail, in dry and in real mode, with exact and with non-exact lookups,
\* whether find_server_arrays answers None or an empty list.
C20_NonStrictTerminateToleratesNoMatch ==
    (op = "Terminate" /\ ~opt.strict /\ NoMatch /\ step > 1)
        => result.status # "raised"


(***************************************************************************)
(* Properties of _generate_rightscale_params (SpecEncode).                 *)
(***************************************************************************)
Encoded == enc.pc = "returned" /\ enc.prefix # <<>> /\ enc.params.t = "dict"

\* the scalars of a value in depth-first order, each with its path: one step
\* per dict key or list level from the root down
RECURSIVE Leaves(_)
Leaves(d) ==
    IF d.t = "scalar" THEN <<[path |-> <<>>, value |-> d.v]>>
    ELSE Flatten([i \in 1..Len(d.kids) |->
                    LET below == Leaves(d.kids[i].d)
                    IN  [j \in 1..Len(below) |->
                           [path |-> <<[list |-> d.t = "list", k |-> d.kids[i].k]>>
                                     \o below[j].path,
                            value |-> below[j].value]]])

KeyOf(prefix, path) ==
    prefix \o Flatten([i \in 1..Len(path) |->
                         IF path[i].list THEN <<"[", "]">>
                         ELSE <<"[">> \o path[i].k \o <<"]">>])

\* C22: for a non-empty prefix and a dict, the encoder returns one pair per
\* scalar, in the depth-first order of the dicts' iteration, with the key
\* prefix + '[k]' per dict key of the path + '[]' per list level, and the
\* scalar as value.
C22_OnePairPerScalarInOrder ==
    Encoded =>
        LET leaves == Leaves(enc.params)
        IN  /\ enc.ret.exc = ""
            /\ enc.ret.items =
                  [i \in 1..Len(leaves) |->
                     Pair(KeyOf(enc.prefix, leaves[i].path), leaves[i].value)]

C22_Witness ==
    /\ Encoded
    /\ Len(enc.ret.items) = 2
    /\ enc.ret.items[1].key = <<"p", "[", "b", "]", "[", "]", "[", "a", "]">>
    /\ enc.ret.items[2].key = <<"p", "[", "a", "]">>


\* the bracket segments of what follows the prefix in a key: '[a][][b]'
\* gives a, '' and b
RECURSIVE Segments(_)
Segments(cs) ==
    IF cs = <<>> THEN <<>>
    ELSE IF cs[1] # "[" \/ \A i \in 1..Len(cs) : cs[i] # "]" THEN <<cs>>
    ELSE LET close == CHOOSE i \in 1..Len(cs) :
                         cs[i] = "]" /\ \A j \in 1..(i - 1) : cs[j] # "]"
         IN  <<SubSeq(cs, 2, close - 1)>>
             \o Segments(SubSeq(cs, close + 1, Len(cs)))

Row(segs, value) == [segs |-> segs, value |-> value]
Below(rows) == [i \in 1..Len(rows) |-> Row(Tail(rows[i].segs), rows[i].value)]
\* how many of the first rows share the first segment of the first row
RECURSIVE RunLength(_)
RunLength(rows) ==
    IF Len(rows) < 2 THEN Len(rows)
    ELSE IF rows[2].segs # <<>> /\ Head(rows[2].segs) = Head(rows[1].segs)
    THEN 1 + RunLength(Tail(rows))
    ELSE 1

\* re-grouping by bracket segments: rows with an empty segment first are the
\* elements of a list, one element per row; otherwise consecutive rows with
\* the same first segment are the value of that dict key
RECURSIVE Regroup(_)
RECURSIVE RegroupItems(_)
Regroup(rows) ==
    IF rows = <<>> THEN Dict(<<>>)
    ELSE IF rows[1].segs = <<>> THEN Scalar(rows[1].value)
    ELSE IF Head(rows[1].segs) = <<>>
    THEN PyList([i \in 1..Len(rows) |-> Regroup(Below(<<rows[i]>>))])
    ELSE Dict(RegroupItems(rows))
RegroupItems(rows) ==
    IF rows = <<>> THEN <<>>
    ELSE LET n == RunLength(rows)
         IN  <<KV(Head(rows[1].segs), Regroup(Below(SubSeq(rows, 1, n))))>>
             \o RegroupItems(SubSeq(rows, n + 1, Len(rows)))

Decode(prefix, items) ==
    Regroup([i \in 1..Len(items) |->
               Row(Segments(SubSeq(items[i].key, Len(prefix) + 1,
                                   Len(items[i].key))),
                   items[i].value)])

\* no dict and no list of the value is empty, and lists hold scalars only
RECURSIVE Plain(_)
Plain(d) ==
    \/ d.t = "scalar"
    \/ /\ d.t = "dict" /\ d.kids # <<>>
       /\ \A i \in 1..Len(d.kids) : Plain(d.kids[i].d)
    \/ /\ d.t = "list" /\ d.kids # <<>>
       /\ \A i \in 1..Len(d.kids) : d.kids[i].d.t = "scalar"

Updates == {k \in 1..Len(calls) : calls[k].fn = "update_server_array"}

\* C23: a Launch with enable false or omitted makes no update_server_array
\* call, and the only update a Launch ever makes is state=enabled, never
\* state=disabled.
C23_LaunchNeverDisables ==
    op = "Launch" =>
        /\ ~opt.enable => Updates = {}
        /\ \A k \in Updates :
              /\ calls[k].arg = Arg("server_array[state]", "enabled", 0)
              /\ calls[k].by = "_enable_array"

C23_Witness ==
    /\ op = "Launch" /\ ~dry /\ ~opt.enable
    /\ result.status = "ok" /\ Launches # {} /\ Updates = {}


Processed(h) ==
    /\ CallsBy("_disable_array", h) # {}
    /\ CallsBy("_terminate_all_instances", h) # {}
    /\ CallsBy("_wait_until_empty", h) # {}
\* Destroy's second lookup returns
SecondLookupReturns ==
    /\ op = "Destroy" /\ ~dry
    /\ step = Len(Steps) - 1 /\ step' = Len(Steps)

TerminateFns == {"_disable_array", "_terminate_all_instances", "_wait_until_empty"}
TerminateFailed ==
    /\ op = "Destroy" /\ result.status = "raised"
    /\ \/ Steps[step].fn \in TerminateFns
       \/ Steps[step].kind = "find" /\ Cardinality(Finds) = 1

\* C26: when a step of the inherited Terminate workflow fails in Destroy (the
\* lookup, or the disable, terminate-all or poll of any array), Destroy makes
\* no destroy_server_array call and no second lookup.
C26_NoDestroyAfterFailedTerminate ==
    TerminateFailed => (Destroys = {} /\ Cardinality(Finds) = 1)

C26_Witness ==
    /\ TerminateFailed /\ ~dry
    /\ Steps[step].fn = "_wait_until_empty"
    /\ Len(tasks) = 2 /\ tasks[1].pc = "done" /\ tasks[2].pc = "failed"
    /\ Destroys = {}


(***************************************************************************)
(* Properties of the pollers (SpecStages).                                 *)
(***************************************************************************)
\* poller i gets the answer to its instance query
Sampled(i) ==
    /\ pc = "joining" /\ i \in 1..Len(tasks)
    /\ tasks[i].pc = "poll" /\ tasks'[i].pc # "poll"
Polls(h) ==
    {k \in 1..Len(calls) :
        /\ calls[k].fn = "get_server_array_current_instances"
        /\ calls[k].by = Steps[Len(Steps)].fn /\ calls[k].arr = h}

\* C27: a real Terminate returns successfully only if the last instance query
\* of every array's poller returned no instance; a poller whose query returns
\* one or more instances sleeps and then queries again.
C27_TerminateReturnsWhenEmpty ==
    /\ []((op = "Terminate" /\ ~dry /\ result.status = "ok")
             => \A i \in 1..Len(tasks) :
                   /\ tasks[i].pc = "done" /\ tasks[i].loc.sample = 0
                   /\ Cardinality(Polls(tasks[i].arr)) = tasks[i].polls
                   /\ tasks[i].polls >= 1)
    /\ [][\A i \in 1..MaxArrays :
             (op = "Terminate" /\ Sampled(i) /\ tasks'[i].pc # "failed")
                => IF tasks'[i].loc.sample = 0 THEN tasks'[i].pc = "done"
                   ELSE tasks'[i].pc = "sleep" /\ sleeps' = sleeps + 1]_vars
    /\ [][\A i \in 1..MaxArrays :
             (op = "Terminate" /\ pc = "joining" /\ i \in 1..Len(tasks)
                /\ tasks[i].pc = "sleep" /\ tasks'[i] # tasks[i])
                => (tasks'[i].pc = "poll" /\ Len(calls') = Len(calls) + 1)]_vars

C27_Witness ==
    /\ op = "Terminate" /\ ~dry /\ result.status = "ok"
    /\ Len(tasks) = 2
    /\ tasks[1].polls = 2 /\ tasks[2].polls = 1 /\ sleeps = 1

\* the number of operational instances Launch waits for
Target(h) == IF opt.count # 0 THEN opt.count ELSE h.min_count

\* C28: a real Launch returns successfully only if the last operational
\* instance query of every array's poller returned at least the target: the
\* count given when it is not zero, the array's min_count otherwise.
C28_LaunchReturnsWhenHealthy ==
    (op = "Launch" /\ ~dry /\ result.status = "ok")
        => \A i \in 1..Len(tasks) :
              /\ tasks[i].pc = "done"
              /\ tasks[i].loc.sample >= Target(tasks[i].arr)
              /\ Cardinality(Polls(tasks[i].arr)) = tasks[i].polls
              /\ tasks[i].polls >= 1

C28_Witness ==
    /\ op = "Launch" /\ ~dry /\ result.status = "ok" /\ opt.count = 0
    /\ \E i \in 1..Len(tasks) :
          /\ tasks[i].arr.min_count = 2 /\ tasks[i].loc.sample = 2
          /\ tasks[i].polls = 2
    /\ \E i \in 1..Len(tasks) : tasks[i].polls = 1


(***************************************************************************)
(* Properties of the pollers under fair scheduling (SpecPoll).             *)
(***************************************************************************)
PollFns == {"_wait_until_empty", "_wait_until_healthy"}
\* poller i of the running poll stage
Polling(i) ==
    /\ Running /\ pc = "joining" /\ Steps[step].fn \in PollFns
    /\ i \in 1..Len(tasks)
\* the sample satisfies the predicate of the poller of array h
Satisfies(sample, h) ==
    IF Steps[step].fn = "_wait_until_empty" THEN sample < 1
    ELSE Target(h) <= sample

\* C29: a real poller has no bound on its samples.  It returns at the first
\* sample that satisfies its predicate and at no other; after any other
\* sample it sleeps, and under fair scheduling it wakes up and samples again,
\* so it ends once a sample satisfies the predicate and, unless a query
\* raises, never before; the run returns only after its pollers have.
C29_PollersEndOnlyWhenSatisfied ==
    /\ [][\A i \in 1..MaxArrays :
             (Polling(i) /\ tasks[i].pc = "poll" /\ tasks'[i].pc # "poll")
                => \/ tasks'[i].pc = "failed"
                      /\ tasks'[i].exc \in Faults(Steps[step].fn)
                   \/ tasks'[i].pc = "done"
                      /\ Satisfies(tasks'[i].loc.sample, tasks[i].arr)
                   \/ tasks'[i].pc = "sleep"
                      /\ ~Satisfies(tasks'[i].loc.sample, tasks[i].arr)]_vars
    /\ [][\A i \in 1..MaxArrays :
             (Polling(i) /\ result' # result)
                => tasks[i].pc \in {"done", "failed"}]_vars
    /\ \A i \in 1..MaxArrays :
          /\ (Polling(i) /\ tasks[i].pc = "poll")
                ~> ~(Polling(i) /\ tasks[i].pc = "poll")
          /\ (Polling(i) /\ tasks[i].pc = "sleep" /\ tasks[i].polls < MaxPolls)
                ~> (Polling(i) /\ tasks[i].pc = "poll")

C29_Witness ==
    /\ Polling(1) /\ tasks[1].pc = "sleep" /\ tasks[1].polls = MaxPolls
    /\ ~Satisfies(tasks[1].loc.sample, tasks[1].arr)
    /\ sleeps = MaxPolls


(***************************************************************************)
(* Properties of Terminate's terminate-all stage (SpecStages).             *)
(***************************************************************************)
TaskWaits(h) ==
    {k \in 1..Len(calls) : calls[k].fn = "wait_for_task" /\ calls[k].arr = h}

\* C30: in a real Terminate, when wait_for_task returns the status of the
\* terminate-all task, succeeded or failed, the array's step ends without an
\* error, and a Terminate that returns has polled every array after it
\* waited for its task.
C30_TerminateTaskOutcomeIgnored ==
    /\ [][\A i \in 1..MaxArrays :
             (op = "Terminate" /\ TaskEnds(i))
                => (tasks'[i].pc = "done" /\ tasks'[i].exc = ""
                    /\ result' = result)]_vars
    /\ []((op = "Terminate" /\ ~dry /\ result.status = "ok")
             => \A i \in 1..Len(tasks) :
                   /\ Cardinality(TaskWaits(tasks[i].arr)) = 1
                   /\ \A w \in TaskWaits(tasks[i].arr), q \in Polls(tasks[i].arr) :
                         w < q
                   /\ Polls(tasks[i].arr) # {})

C30_Witness ==
    /\ op = "Terminate" /\ ~dry /\ InApply
    /\ Steps[step].fn = "_terminate_all_instances"
    /\ Len(tasks) = 2 /\ tasks[1].pc = "done" /\ tasks[2].pc = "wait_task"
    /\ TaskWaits(tasks[1].arr) # {}


(***************************************************************************)
(* Properties of Execute's input check (SpecExecute).                      *)
(***************************************************************************)
\* some value of the option `inputs` does not begin with a known type
BadPrefix ==
    \E k \in 1..Len(opt.inputs) :
        opt.inputs[k].scheme \notin {"text", "ignore", "env", "cred", "key", "array"}

ScriptLookups ==
    {k \in 1..Len(calls) : calls[k].fn \in {"find_right_script", "find_cookbook"}}

\* C31: a dry Execute with an input whose prefix is not text, ignore, env,
\* cred, key or array never returns: once the lookup of its script has
\* returned it fails with InvalidOptions (only an error raised by the
\* lookup itself comes first), and up to then it has issued no call but that
\* lookup, so no array was located and no instance fetched.
\* A real Execute never fails with InvalidOptions and logs no complaint
\* about a prefix.
C31_DryExecuteRejectsBadPrefix ==
    op = "Execute" =>
       /\ (dry /\ BadPrefix) =>
             /\ result.status # "ok"
             /\ step <= 2
             /\ \A k \in 1..Len(calls) : k \in ScriptLookups
             /\ Len(calls) <= 1
             /\ arrays = None /\ tasks = <<>>
             /\ (result.status = "raised" /\ pc # "checking_script")
                   => result.exc = "InvalidOptions"
             /\ (result.status = "raised" /\ pc = "checking_script")
                   => \/ result.exc = "InvalidOptions" /\ ~Truthy(found["script"])
                      \/ result.exc = "HTTPError 500"
       /\ ~dry =>
             /\ result.exc # "InvalidOptions"
             /\ \A k \in 1..Len(log) :
                   log[k].msg # "Value needs to begin with one of the types"

C31_Witness ==
    /\ op = "Execute" /\ dry /\ BadPrefix
    /\ Truthy(found["script"])
    /\ step = 2 /\ result = Raised("InvalidOptions", 0)
    /\ Len(calls) = 1 /\ Finds = {}
    /\ \E k \in 1..Len(log) :
          log[k].msg = "Value needs to begin with one of the types"


(***************************************************************************)
(* Properties of Execute's script submission (SpecExecute).                *)
(***************************************************************************)
\* run_executable_on_instances raises ServerArrayException in coroutine i
Rejected(i) ==
    /\ op = "Execute" /\ ~dry
    /\ Waiting(i, {"run"})
    /\ Resume(i, Ans(FALSE, "ServerArrayException", 0, <<>>), 0)

RejectedArrays ==
    {i \in 1..Len(tasks) :
        tasks[i].pc = "failed" /\ tasks[i].exc = "RecoverableActorFailure"}

\* C32: when run_executable_on_instances raises ServerArrayException for
\* an array of a real Execute, the array's step ends with
\* RecoverableActorFailure and without a call of wait_for_task; no task is
\* ever awaited for that array, and Execute does not return: once every step
\* has ended it raises the failure of the first array that failed, which is
\* RecoverableActorFailure when that array is the rejected one.
C32_RejectedSubmissionFails ==
    /\ [][\A i \in 1..MaxArrays :
             Rejected(i)
                => /\ tasks'[i].pc = "failed"
                   /\ tasks'[i].exc = "RecoverableActorFailure"
                   /\ calls' = calls
                   /\ result' = result]_vars
    /\ []((op = "Execute" /\ RejectedArrays # {})
             => /\ ~dry
                /\ result.status # "ok"
                /\ \A i \in RejectedArrays : TaskWaits(tasks[i].arr) = {}
                /\ result.status = "raised"
                      => /\ result.by \in 1..Len(tasks)
                         /\ tasks[result.by].pc = "failed"
                         /\ result.exc = tasks[result.by].exc
                         /\ \A i \in RejectedArrays : result.by <= i)

C32_Witness ==
    /\ op = "Execute" /\ ~dry /\ Len(tasks) = 2
    /\ RejectedArrays = {1}
    /\ tasks[2].pc = "done" /\ TaskWaits(tasks[2].arr) # {}
    /\ result = Raised("RecoverableActorFailure", 1)


(***************************************************************************)
(* Properties of Update's dry check of its inputs (SpecUpdate).            *)
(***************************************************************************)
\* an input name of the option `inputs` is not an input of array h
MissingInput(h) ==
    \E k \in 1..Len(opt.inputs) :
        \A j \in 1..Len(get_server_array_inputs(h)) :
            get_server_array_inputs(h)[j].name # opt.inputs[k].name

InputQueries(h) ==
    {k \in 1..Len(calls) :
        calls[k].fn = "get_server_array_inputs" /\ calls[k].arr = h}

InInputCheck ==
    /\ op = "Update" /\ dry /\ pc = "joining"
    /\ Steps[step].fn = "_check_array_inputs"

\* C33: in a dry Update with inputs, when get_server_array_inputs returns
\* the inputs of a real array, the array's check fails with InvalidInputs if
\* an input name of the option is not among them and ends without an error
\* otherwise; the check of a fabricated array ends at once with a warning,
\* without a call of get_server_array_inputs.  Update returns only if no
\* real array lacks an input, and fails with InvalidInputs only for an array
\* that lacks one.
C33_DryUpdateChecksInputNames ==
    /\ [][\A i \in 1..MaxArrays :
             (op = "Update" /\ dry /\ InputsReturn(i))
                => /\ opt.inputs # <<>>
                   /\ ~tasks[i].arr.fake
                   /\ IF MissingInput(tasks[i].arr)
                      THEN /\ tasks'[i].pc = "failed"
                           /\ tasks'[i].exc = "InvalidInputs"
                      ELSE /\ tasks'[i].pc = "done"
                           /\ tasks'[i].exc = ""]_vars
    /\ [](InInputCheck
             => /\ opt.inputs # <<>>
                /\ \A i \in 1..Len(tasks) :
                      /\ tasks[i].arr.fake
                            => /\ tasks[i].pc = "done"
                               /\ InputQueries(tasks[i].arr) = {}
                               /\ \E k \in 1..Len(log) :
                                     log[k].msg =
                                     "Cannot check inputs for non-existent array."
                      /\ ~tasks[i].arr.fake
                            => /\ Cardinality(InputQueries(tasks[i].arr)) = 1
                               /\ tasks[i].exc = "InvalidInputs"
                                     => MissingInput(tasks[i].arr)
                               /\ tasks[i].pc = "done"
                                     => ~MissingInput(tasks[i].arr)
                /\ result.exc = "InvalidInputs"
                      => /\ tasks[result.by].exc = "InvalidInputs"
                         /\ MissingInput(tasks[result.by].arr))
    /\ []((op = "Update" /\ dry /\ opt.inputs # <<>> /\ result.status = "ok")
             => \A i \in 1..Len(tasks) :
                   tasks[i].arr.fake \/ ~MissingInput(tasks[i].arr))

C33_Witness ==
    /\ InInputCheck /\ Len(tasks) = 2
    /\ MissingInput(tasks[1].arr) /\ ~MissingInput(tasks[2].arr)
    /\ tasks[1].exc = "InvalidInputs" /\ tasks[2].pc = "done"
    /\ result = Raised("InvalidInputs", 1)


(***************************************************************************)
(* Properties of Update's params stage (SpecUpdate).                       *)
(***************************************************************************)
\* update_server_array raises the HTTP error e in coroutine i of the params
\* stage of a real Update
ParamsUpdateRaises(i, e) ==
    /\ op = "Update" /\ ~dry
    /\ Waiting(i, {"update"})
    /\ Steps[step].fn = "_update_params"
    /\ Resume(i, Ans(FALSE, e, 0, <<>>), 0)

\* a coroutine of the params stage of a real Update has failed
ParamsStageFailed ==
    /\ op = "Update" /\ ~dry /\ pc = "joining"
    /\ Steps[step].fn = "_update_params"
    /\ \E i \in 1..Len(tasks) : tasks[i].pc = "failed"

InputUpdates ==
    {k \in 1..Len(calls) :
        \/ calls[k].fn = "update_server_array_inputs"
        \/ calls[k].by = "_update_inputs"}

\* C34: in a real Update, a 400 or a 422 raised by the update of an array's
\* params makes the array's step fail with RecoverableActorFailure, and any
\* other HTTP error makes it fail with that error; once a step of the params
\* stage has failed Update stays in that stage until it raises the failure
\* of an array, and the inputs stage is not started: no array's inputs are
\* updated and Update does not return.
C34_ParamsRejectionStopsUpdate ==
    /\ [][\A i \in 1..MaxArrays :
             /\ \A e \in {"HTTPError 400", "HTTPError 422"} :
                   ParamsUpdateRaises(i, e)
                      => /\ tasks'[i].pc = "failed"
                         /\ tasks'[i].exc = "RecoverableActorFailure"
             /\ ParamsUpdateRaises(i, "HTTPError 500")
                   => /\ tasks'[i].pc = "failed"
                      /\ tasks'[i].exc = "HTTPError 500"]_vars
    /\ [][ParamsStageFailed
             => /\ step' = step /\ pc' = pc
                /\ Len(tasks') = Len(tasks)
                /\ result'.status # "ok"]_vars
    /\ [](ParamsStageFailed
             => /\ InputUpdates = {}
                /\ result.status # "ok"
                /\ result.status = "raised"
                      => /\ tasks[result.by].pc = "failed"
                         /\ result.exc = tasks[result.by].exc
                         /\ result.exc \in {"RecoverableActorFailure",
                                            "HTTPError 500"})

C34_Witness ==
    /\ ParamsStageFailed /\ opt.inputs # <<>> /\ Len(tasks) = 2
    /\ tasks[1].pc = "done" /\ tasks[2].exc = "RecoverableActorFailure"
    /\ result = Raised("RecoverableActorFailure", 2)
    /\ Cardinality(Updates) = 2 /\ InputUpdates = {}


(***************************************************************************)
(* Properties of a strict Clone (SpecClone).                               *)
(***************************************************************************)
StrictClone == op = "Clone" /\ opt.strict_source /\ opt.strict_dest

\* the lookup of a name returns to a strict Clone
LookupReturns(name) ==
    /\ StrictClone
    /\ pc = "finding" /\ Steps[step].name = name
    /\ FindReturn

=============================================================================
